---- MODULE Spec2Model ----
(***************************************************************************)
(* Soil / environment analysis programs of the repository.                 *)
(*                                                                         *)
(*   Spec          NASA_SMAP.py: main() -> FreeSoilAnalyzer.get_soil_data  *)
(*                 (three sequential source fetches, then the profile      *)
(*                 builder _process_soil_data).                            *)
(*   SpecPipeline  combined.py and open_soil_grid.py: main() submits the   *)
(*                 SoilGrids and ERA5 fetches to an executor, joins them,  *)
(*                 then runs the model request in a retry loop.            *)
(*   SpecClassify  NASA_SMAP.py: FreeSoilAnalyzer._classify_soil_type, the *)
(*                 pure soil-texture classifier, called on a triple.       *)
(*   SpecAggregate NASA_SMAP.py: FreeSoilAnalyzer._safe_get_nasa_value,    *)
(*                 called on a parameter dictionary and a key.             *)
(*   SpecEra5      combined.py / open_soil_grid.py: two threads each       *)
(*                 running one ERA5 fetch (get_era5_data, fetch_era5_data) *)
(*                 in the same working directory.                          *)
(*                                                                         *)
(* Numbers.  Python floats are modelled by exact integers in fixed units:  *)
(*   soil inputs (clay, sand, soc, phh2o)     thousandths  (33.333 = 33333)*)
(*   stored 2-decimal fields                  hundredths   (33.33  = 3333) *)
(*   stored nitrogen (3 decimals)             thousandths                  *)
(*   NASA daily values                        whole units                  *)
(* A JSON / float value is a tagged record: JNum(n), JNaN, JNull, JStr.    *)
(* Where an exact value lies on a rounding tie or on a threshold of the     *)
(* classifier, the binary64 value the program computes for it decides.      *)
(***************************************************************************)
EXTENDS Integers, Sequences, FiniteSets, TLC

VARIABLES
    \* NASA_SMAP.py
    pc,               \* position of main(): "input" .. "done"
    latitude,         \* what float(input(...)) produced (JNum/JNaN), JStr if it raised
    longitude,
    calls,            \* outbound requests issued so far, in order
    lastFetch,        \* outcome of the latest source fetch
    weather_data,     \* return value of _get_weather_data
    nasa_data,        \* return value of _get_nasa_power_data
    soil_properties,  \* return value of _get_soilgrids_data
    soil_data,        \* return value of get_soil_data
    printed,          \* what main() printed last
    \* combined.py / open_soil_grid.py
    prog,             \* which program runs: "combined", "opengrid" ("none" under Spec)
    mpc,              \* position of main()
    soilTask,         \* the executor task fetching SoilGrids
    climTask,         \* the executor task fetching ERA5
    retries,          \* loop counter of the analysis retry loop
    attemptLog,       \* outcome of every model request made, in order
    sleeps,           \* every time.sleep made by the retry loop, in order
    now,              \* wall clock, seconds
    last_request_time,\* self.last_request_time (NoTime = None)
    aresult,          \* return value of analyze_combined_data / analyze_data
    mprinted,         \* what main() reported last
    invocation,       \* which analysis call on the analyzer object this is: 1, 2
    \* a call of _classify_soil_type
    c_pc,             \* "call" before the call, "returned" after ("none" otherwise)
    c_clay,           \* the arguments
    c_sand,
    c_silt,
    c_label,          \* the returned label
    \* a call of _safe_get_nasa_value
    g_pc,             \* "call" before the call, "returned" after ("none" otherwise)
    g_parameters,     \* the `parameters` argument
    g_key,            \* the `key` argument
    g_value,          \* the returned aggregate
    \* two concurrent ERA5 fetch calls
    e_pc,             \* per thread: "call", "retrieve", "open", "read",
                      \* "finally", "remove", "done"
    e_temp_file,      \* per thread: the second count in its temp_file name
    e_files,          \* the working directory: temp files by name, each with
                      \* the thread whose download it holds
    e_ds,             \* per thread: the local `ds`: whose downloads the
                      \* file under the open dataset has held since it was
                      \* opened ({}: no dataset)
    e_var,            \* per thread: how many variables of the request it read
    e_read,           \* per thread: whose downloads its reads returned
    e_clobbered,      \* per thread: whose downloads it overwrote or removed
    e_result,         \* per thread: "none", "data", "raise"
    e_now             \* wall clock, seconds (time.time())

smapVars == <<pc, latitude, longitude, calls, lastFetch, weather_data, nasa_data,
              soil_properties, soil_data, printed>>

smapVarsButPc == <<latitude, longitude, calls, lastFetch, weather_data,
                   nasa_data, soil_properties, soil_data, printed>>

pipeVars == <<prog, mpc, soilTask, climTask, retries, attemptLog, sleeps, now,
              last_request_time, aresult, mprinted, invocation>>

clsVars == <<c_pc, c_clay, c_sand, c_silt, c_label>>

aggVars == <<g_pc, g_parameters, g_key, g_value>>

\* the variables of the single-call specifications other than SpecClassify
eraVars == <<e_pc, e_temp_file, e_files, e_ds, e_var, e_read, e_clobbered,
             e_result, e_now>>

auxVars == <<aggVars, eraVars>>

vars == <<smapVars, pipeVars, clsVars, auxVars>>

---------------------------------------------------------------------------
(* Bounds of the model *)

\* classifier arguments summing to 100 are enumerated in steps of
\* 1 / ClassifyGridDen percent
ClassifyGridDen == 2

\* longest NASA POWER daily series enumerated
MaxDays == 2

\* soil percentages enumerated: -16.666, 0, 16.666, .. MaxPctStep * 16.666
MaxPctStep == 7

\* seconds of wall-clock time over which two ERA5 fetch calls are followed
MaxSeconds == 2

---------------------------------------------------------------------------
(* JSON / float values *)

JNum(n) == [t |-> "num", v |-> n]
JNaN    == [t |-> "nan", v |-> 0]
JNull   == [t |-> "null", v |-> 0]
JStr    == [t |-> "str", v |-> 0]

\* x is an ordinary number and not NaN: the comparisons of min, max and of
\* the range checks can be true of it
IsNum(x) == x.t = "num"

\* Python min(a, b): b replaces a only when b < a (false for NaN)
PyMin(a, b) == IF IsNum(a) /\ IsNum(b) /\ b.v < a.v THEN b ELSE a

\* Python max(a, b): b replaces a only when b > a (false for NaN)
PyMax(a, b) == IF IsNum(a) /\ IsNum(b) /\ b.v > a.v THEN b ELSE a

\* Clamp with the lower bound forgotten: min(hi, value)
ClampNoFloor(lo, hi, value) == PyMin(JNum(hi), value)

\* the validation idiom max(lo, min(hi, value)) of the analyzer
Clamp(lo, hi, value) == PyMax(JNum(lo), PyMin(JNum(hi), value))

\* an exact rational n/d (d > 0), or NaN: the value of a float mean
Rat(n, d) == [t |-> "num", n |-> n, d |-> d]
RatNaN    == [t |-> "nan", n |-> 0, d |-> 1]

\* arguments that are no number at all: None, a string
RatNone   == [t |-> "null", n |-> 0, d |-> 1]
RatStr    == [t |-> "str", n |-> 0, d |-> 1]

\* max(lo, min(hi, x)) on a rational x, lo and hi integers
ClampRat(lo, hi, x) ==
    LET m == IF x.t = "num" /\ x.n < hi * x.d THEN x ELSE Rat(hi, 1)
    IN  IF m.n > lo * m.d THEN m ELSE Rat(lo, 1)

---------------------------------------------------------------------------
(* Python floats: IEEE 754 binary64 arithmetic, round to nearest, ties to  *)
(* even.  A float is sign * m * 2^e with the significand m a natural number *)
(* of 53 bits at most (2^53 after a rounding that carried), kept as a       *)
(* sequence of limbs; zero has the empty significand.  The values of the    *)
(* program stay far from the subnormal and the infinite range, which are    *)
(* not modelled.                                                            *)

\* naturals beyond 2^31: little-endian sequences of limbs in
\* 0 .. LimbBase - 1 without a leading zero limb
LimbBits == 12
LimbBase == 4096

RECURSIVE Pow2(_)
Pow2(n) == IF n = 0 THEN 1 ELSE 2 * Pow2(n - 1)

RECURSIVE Pow10(_)
Pow10(n) == IF n = 0 THEN 1 ELSE 10 * Pow10(n - 1)

RECURSIVE BitLen(_)
BitLen(n) == IF n = 0 THEN 0 ELSE 1 + BitLen(n \div 2)

\* a without its leading zero limbs
RECURSIVE BTrim(_)
BTrim(a) ==
    IF a = <<>> \/ a[Len(a)] # 0 THEN a ELSE BTrim(SubSeq(a, 1, Len(a) - 1))

RECURSIVE BFromNat(_)
BFromNat(n) == IF n = 0 THEN <<>> ELSE <<n % LimbBase>> \o BFromNat(n \div LimbBase)

RECURSIVE BToNat(_)
BToNat(a) == IF a = <<>> THEN 0 ELSE a[1] + LimbBase * BToNat(Tail(a))

BBitLen(a) ==
    IF a = <<>> THEN 0 ELSE (Len(a) - 1) * LimbBits + BitLen(a[Len(a)])

\* a + b: the low limbs added, the carry added to the sum of the rest
RECURSIVE BAdd(_, _)
BAdd(a, b) ==
    IF a = <<>> THEN b
    ELSE IF b = <<>> THEN a
    ELSE <<(a[1] + b[1]) % LimbBase>>
             \o (IF a[1] + b[1] < LimbBase THEN BAdd(Tail(a), Tail(b))
                 ELSE BAdd(BAdd(Tail(a), Tail(b)), <<1>>))

\* a - b for a >= b: the low limbs subtracted, the borrow taken from the
\* difference of the rest
RECURSIVE BSub(_, _)
BSub(a, b) ==
    IF b = <<>> THEN a
    ELSE BTrim(IF a[1] >= b[1]
               THEN <<a[1] - b[1]>> \o BSub(Tail(a), Tail(b))
               ELSE <<a[1] + LimbBase - b[1]>>
                        \o BSub(BSub(Tail(a), Tail(b)), <<1>>))

\* -1, 0, 1 as a < b, a = b, a > b
RECURSIVE BCmp(_, _)
BCmp(a, b) ==
    IF Len(a) # Len(b) THEN (IF Len(a) < Len(b) THEN 0 - 1 ELSE 1)
    ELSE IF a = <<>> THEN 0
    ELSE IF a[Len(a)] # b[Len(a)]
         THEN (IF a[Len(a)] < b[Len(a)] THEN 0 - 1 ELSE 1)
    ELSE BCmp(SubSeq(a, 1, Len(a) - 1), SubSeq(b, 1, Len(b) - 1))

\* a * k for a k of 18 bits at most
RECURSIVE BMulSmall(_, _)
BMulSmall(a, k) ==
    IF a = <<>> \/ k = 0 THEN <<>>
    ELSE <<(a[1] * k) % LimbBase>>
             \o BAdd(BMulSmall(Tail(a), k), BFromNat((a[1] * k) \div LimbBase))

\* a * 2^n
BShl(a, n) ==
    IF a = <<>> THEN a
    ELSE [i \in 1..(n \div LimbBits) |-> 0] \o BMulSmall(a, Pow2(n % LimbBits))

\* a * b
RECURSIVE BMul(_, _)
BMul(a, b) ==
    IF b = <<>> THEN <<>>
    ELSE BAdd(BMulSmall(a, b[1]), BShl(BMul(a, Tail(b)), LimbBits))

\* the limbs i and below of a \div k, given the remainder from above
RECURSIVE BDivSmallFrom(_, _, _, _)
BDivSmallFrom(a, k, i, rem) ==
    IF i = 0 THEN <<>>
    ELSE BDivSmallFrom(a, k, i - 1, (rem * LimbBase + a[i]) % k)
             \o <<(rem * LimbBase + a[i]) \div k>>

\* floor(a / k) for a divisor k of ShortBits bits at most
ShortBits == 18
BDivSmall(a, k) == BTrim(BDivSmallFrom(a, k, Len(a), 0))

\* floor(a / 2^n)
BShr(a, n) ==
    IF n \div LimbBits >= Len(a) THEN <<>>
    ELSE BDivSmall(SubSeq(a, n \div LimbBits + 1, Len(a)), Pow2(n % LimbBits))

\* the number of zero bits at the low end of n > 0, of a > 0
RECURSIVE LowZeros(_)
LowZeros(n) == IF n % 2 = 1 THEN 0 ELSE 1 + LowZeros(n \div 2)

RECURSIVE BLowZeros(_)
BLowZeros(a) ==
    IF a[1] = 0 THEN LimbBits + BLowZeros(Tail(a)) ELSE LowZeros(a[1])

\* <<quotient, remainder>> of the long division by b > 0 of the bits i down
\* to lo, given the quotient q and the remainder rem of the bits above
RECURSIVE BDivModBits(_, _, _, _, _)
BDivModBits(rem, b, i, lo, q) ==
    IF i < lo THEN <<q, rem>>
    ELSE IF BCmp(rem, BShl(b, i)) >= 0
         THEN BDivModBits(BSub(rem, BShl(b, i)), b, i - 1, lo,
                          BAdd(q, BShl(<<1>>, i)))
         ELSE BDivModBits(rem, b, i - 1, lo, q)

\* the long division a limb's worth of bits at a time; at the end twice
\* the quotient, plus one when a remainder is left
RECURSIVE BDivModFrom(_, _, _, _)
BDivModNext(qr, b, i) == BDivModFrom(qr[2], b, i, qr[1])

BDivModFrom(rem, b, i, q) ==
    IF i < 0 THEN BAdd(BShl(q, 1), IF rem = <<>> THEN <<>> ELSE <<1>>)
    ELSE IF i < LimbBits THEN BDivModNext(BDivModBits(rem, b, i, 0, q), b, 0 - 1)
    ELSE BDivModNext(BDivModBits(rem, b, i, i - LimbBits + 1, q), b, i - LimbBits)

\* 2 * floor(a / b), plus one when b > 0 does not divide a
BQuotient(a, b) ==
    IF BBitLen(b) <= ShortBits
    THEN BAdd(BShl(BDivSmall(a, BToNat(b)), 1),
              IF BMulSmall(BDivSmall(a, BToNat(b)), BToNat(b)) = a
              THEN <<>> ELSE <<1>>)
    ELSE BDivModFrom(a, b, BBitLen(a) - BBitLen(b), <<>>)

\* q + 1 when the bits rounded away compare c > 0 with the half, or equal
\* it (c = 0) and q is odd; q when not
BRoundUp(q, c) ==
    IF c > 0 \/ (c = 0 /\ q # <<>> /\ q[1] % 2 = 1) THEN BAdd(q, <<1>>) ELSE q

\* N with its k > 0 low bits rounded away, ties to even
BRoundBits(N, k) ==
    BRoundUp(BShr(N, k),
             BCmp(BSub(N, BShl(BShr(N, k), k)), BShl(<<1>>, k - 1)))

\* the float nearest to sign * N * 2^e, ties to even
FNearest(neg, N, e) ==
    IF BBitLen(N) <= 53 THEN [neg |-> neg, m |-> N, e |-> e]
    ELSE [neg |-> neg, m |-> BRoundBits(N, BBitLen(N) - 53),
          e |-> e + BBitLen(N) - 53]

\* the float nearest to sign * A * 2^e / B for A > 0 and an odd B: the
\* quotient is taken after a shift of A by s bits, which gives it 55 bits
\* or more, and what the division leaves decides between its neighbours
FNearestShifted(neg, A, B, e, s) ==
    FNearest(neg, BQuotient(BShl(A, s), B), e - s - 1)

\* the shift of A that gives a quotient of 55 bits or more by B / 2^z
QuotientShift(A, B, z) ==
    IF 56 + BBitLen(B) - z - BBitLen(A) > 0
    THEN 56 + BBitLen(B) - z - BBitLen(A) ELSE 0

\* the float nearest to sign * A * 2^e / B for B > 0: the powers of two in B
\* go to the exponent
FNearestQuotient(neg, A, B, e) ==
    IF A = <<>> THEN [neg |-> FALSE, m |-> <<>>, e |-> 0]
    ELSE FNearestShifted(neg, A, BShr(B, BLowZeros(B)), e - BLowZeros(B),
                         QuotientShift(A, B, BLowZeros(B)))

\* the float of the integer k >= 0
FInt(k) == [neg |-> FALSE, m |-> BFromNat(k), e |-> 0]

\* the float a decimal literal or a JSON number n/d denotes (d > 0)
FFromRat(n, d) ==
    FNearestQuotient(n < 0, BFromNat(IF n < 0 THEN 0 - n ELSE n), BFromNat(d), 0)

\* -1, 0, 1 as x < y, x = y, x > y
FCmp(x, y) ==
    IF x.m = <<>> /\ y.m = <<>> THEN 0
    ELSE IF x.m = <<>> THEN (IF y.neg THEN 1 ELSE 0 - 1)
    ELSE IF y.m = <<>> THEN (IF x.neg THEN 0 - 1 ELSE 1)
    ELSE IF x.neg # y.neg THEN (IF x.neg THEN 0 - 1 ELSE 1)
    ELSE LET e0 == IF x.e < y.e THEN x.e ELSE y.e
         IN  (IF x.neg THEN 0 - 1 ELSE 1)
                 * BCmp(BShl(x.m, x.e - e0), BShl(y.m, y.e - e0))

\* the float nearest to (+-X +- Y) * 2^e, the signs as xneg and yneg say
FAddAligned(xneg, X, yneg, Y, e) ==
    IF xneg = yneg THEN FNearest(xneg, BAdd(X, Y), e)
    ELSE IF BCmp(X, Y) >= 0 THEN FNearest(xneg, BSub(X, Y), e)
    ELSE FNearest(yneg, BSub(Y, X), e)

\* x + y
FAdd(x, y) ==
    IF x.m = <<>> THEN y
    ELSE IF y.m = <<>> THEN x
    ELSE LET e0 == IF x.e < y.e THEN x.e ELSE y.e
         IN  FAddAligned(x.neg, BShl(x.m, x.e - e0),
                         y.neg, BShl(y.m, y.e - e0), e0)

\* x - y
FSub(x, y) == FAdd(x, [y EXCEPT !.neg = ~y.neg])

\* x * y
FMul(x, y) == FNearest(x.neg # y.neg, BMul(x.m, y.m), x.e + y.e)

\* x / y for y # 0
FDiv(x, y) == FNearestQuotient(x.neg # y.neg, x.m, y.m, x.e - y.e)

\* max(lo, min(hi, x)) for integers 0 <= lo <= hi: an operand replaces the
\* one before it only when it compares less (greater)
FClamp(lo, hi, x) ==
    IF FCmp(x, FInt(hi)) >= 0 THEN FInt(hi)
    ELSE IF FCmp(x, FInt(lo)) > 0 THEN x
    ELSE FInt(lo)

\* round(x, ndigits) in units of 10^-ndigits: the decimal nearest to the
\* exact value of the float, ties to even
FRound(x, ndigits) ==
    IF x.m = <<>> THEN 0
    ELSE (IF x.neg THEN 0 - 1 ELSE 1)
            * BToNat(IF x.e >= 0
                     THEN BShl(BMulSmall(x.m, Pow10(ndigits)), x.e)
                     ELSE BRoundBits(BMulSmall(x.m, Pow10(ndigits)), 0 - x.e))

\* round(x, ndigits) of a numpy.float64 x in units of 10^-ndigits: numpy
\* rounds as rint(x * 10^ndigits) / 10^ndigits, the product being a float
\* of its own and rint taking a tie to the even integer
Float64Round(x, ndigits) == FRound(FMul(x, FInt(Pow10(ndigits))), 0)

\* _analyze_soil_properties lines 205-215 in floats: the percentages of the
\* total, organic_matter and nitrogen
SoilFloatsOf(clay, sand, silt, total, organic_matter) ==
    [clay |-> FMul(FDiv(clay, total), FInt(100)),
     sand |-> FMul(FDiv(sand, total), FInt(100)),
     silt |-> FMul(FDiv(silt, total), FInt(100)),
     organic_matter |-> organic_matter,
     nitrogen |-> FClamp(0, 5, FMul(organic_matter, FFromRat(5, 100)))]

\* lines 203 and 210: total, and organic_matter from the soc value, a number
\* of thousandths or NaN, which min and max turn into 100
SoilFloatsNormalised(clay, sand, silt, rawSoc) ==
    SoilFloatsOf(clay, sand, silt, FAdd(FAdd(clay, sand), silt),
                 IF IsNum(rawSoc)
                 THEN FClamp(0, 100, FMul(FFromRat(rawSoc.v, 1000),
                                          FFromRat(58, 1000)))
                 ELSE FInt(100))

\* the floats _analyze_soil_properties computes from the clamped clay and
\* sand (thousandths) and the soc value; line 200 gives silt
SoilFloats(clay0, sand0, rawSoc) ==
    SoilFloatsNormalised(
        FFromRat(clay0, 1000), FFromRat(sand0, 1000),
        FClamp(0, 100, FSub(FSub(FInt(100), FFromRat(clay0, 1000)),
                            FFromRat(sand0, 1000))),
        rawSoc)

\* _estimate_moisture_content lines 171-173: the clamped value x over scale
EnvFactor(x, scale) == FDiv(FFromRat(x.n, x.d), FInt(scale))

\* lines 176-180: base_capacity from the stored clay and sand (hundredths)
BaseCapacity(clay, sand) ==
    FMul(FAdd(FMul(FDiv(FFromRat(clay, 100), FInt(100)), FFromRat(6, 10)),
              FMul(FDiv(FFromRat(sand, 100), FInt(100)), FFromRat(2, 10))),
         FInt(100))

\* the float max(0, min(100, moisture_content)) of line 187, from the
\* clamped temperature T, precipitation P and humidity H
MoistureFloat(T, P, H, clay, sand) ==
    FClamp(0, 100,
           FMul(BaseCapacity(clay, sand),
                FSub(FAdd(FAdd(FFromRat(4, 10),
                               FMul(FFromRat(3, 10), EnvFactor(P, 100))),
                          FMul(FFromRat(2, 10), EnvFactor(H, 100))),
                     FMul(FFromRat(1, 10), EnvFactor(T, 40)))))

---------------------------------------------------------------------------
(* Rounding and comparing floats *)

\* n/d lies exactly halfway between two decimals of ndigits places
AtTie(n, d, ndigits) ==
    LET p  == Pow10(ndigits)
        nn == IF d % p = 0 THEN n ELSE n * p
        dd == IF d % p = 0 THEN d \div p ELSE d
    IN  2 * (nn % dd) = dd

\* the decimal of ndigits places nearest to n/d (d > 0) when n/d is no tie
RoundExact(n, d, ndigits) ==
    LET p  == Pow10(ndigits)
        nn == IF d % p = 0 THEN n ELSE n * p
        dd == IF d % p = 0 THEN d \div p ELSE d
    IN  IF 2 * (nn % dd) < dd THEN nn \div dd ELSE nn \div dd + 1

\* round(x, ndigits) of the float x nearest to n/d (d > 0), in units of
\* 10^-ndigits.  The float differs from n/d by less than one part in 2^53,
\* so it rounds as n/d does unless n/d lies exactly halfway between two
\* decimals; there the float itself decides.
Round(n, d, ndigits) ==
    IF AtTie(n, d, ndigits) THEN FRound(FFromRat(n, d), ndigits)
    ELSE RoundExact(n, d, ndigits)

---------------------------------------------------------------------------
(* Payloads.  A payload is a tagged record; {} is EmptyDict. *)

EmptyDict == [kind |-> "empty"]

\* bool(payload)
Truthy(payload) == payload.kind # "empty"

---------------------------------------------------------------------------
(* FreeSoilAnalyzer: soil properties *)

\* float(layers[depth_idx][property_name]['value']) with depth_idx = 0;
\* IndexError, KeyError, ValueError, TypeError give 0.0; the OverflowError of
\* float() on an integer beyond the float range is not caught here
GetLayerProperty(layers, property_name) ==
    IF Len(layers) = 0 THEN JNum(0)
    ELSE IF property_name \notin DOMAIN layers[1] THEN JNum(0)
    ELSE IF "value" \notin DOMAIN layers[1][property_name] THEN JNum(0)
    ELSE LET x == layers[1][property_name].value
         IN  IF x.t \in {"null", "str"} THEN JNum(0)
             ELSE IF x.t = "big" THEN [t |-> "raise", v |-> 0]
             ELSE x

\* isinstance(x, (int, float)): true of every float, NaN included
IsNumeric(x) == x.t \in {"num", "nan"}

\* x >= k and x <= k on a float x: both false when x is NaN
RatGe(x, k) == x.t = "num" /\ x.n >= k * x.d
RatLe(x, k) == x.t = "num" /\ x.n <= k * x.d

\* ClassifySoilType with the final else branch forgotten
ClassifySoilTypeNoElse(clay, sand, silt) ==
    IF ~(IsNumeric(clay) /\ IsNumeric(sand) /\ IsNumeric(silt)) THEN "Unknown"
    ELSE IF RatGe(sand, 85) THEN "Sandy"
    ELSE IF RatGe(clay, 40) THEN "Clay"
    ELSE IF RatGe(silt, 80) THEN "Silty"
    ELSE IF RatGe(sand, 70) THEN "Sandy Loam"
    ELSE IF RatGe(clay, 27) /\ RatGe(silt, 28) /\ RatLe(sand, 45)
         THEN "Clay Loam"
    ELSE "None"

\* ClassifySoilType with the clay rule tested before the sand rule
ClassifySoilTypeClayFirst(clay, sand, silt) ==
    IF ~(IsNumeric(clay) /\ IsNumeric(sand) /\ IsNumeric(silt)) THEN "Unknown"
    ELSE IF RatGe(clay, 40) THEN "Clay"
    ELSE IF RatGe(sand, 85) THEN "Sandy"
    ELSE IF RatGe(silt, 80) THEN "Silty"
    ELSE IF RatGe(sand, 70) THEN "Sandy Loam"
    ELSE IF RatGe(clay, 27) /\ RatGe(silt, 28) /\ RatLe(sand, 45)
         THEN "Clay Loam"
    ELSE "Loam"

\* ClassifySoilType with the Clay Loam rule asking for sand <= 40
ClassifySoilTypeSandAtMost40(clay, sand, silt) ==
    IF ~(IsNumeric(clay) /\ IsNumeric(sand) /\ IsNumeric(silt)) THEN "Unknown"
    ELSE IF RatGe(sand, 85) THEN "Sandy"
    ELSE IF RatGe(clay, 40) THEN "Clay"
    ELSE IF RatGe(silt, 80) THEN "Silty"
    ELSE IF RatGe(sand, 70) THEN "Sandy Loam"
    ELSE IF RatGe(clay, 27) /\ RatGe(silt, 28) /\ RatLe(sand, 40)
         THEN "Clay Loam"
    ELSE "Loam"

\* first-match decision tree over the percentages, each a rational or NaN;
\* a non-numeric argument gives Unknown before the tree is evaluated
ClassifySoilType(clay, sand, silt) ==
    IF ~(IsNumeric(clay) /\ IsNumeric(sand) /\ IsNumeric(silt)) THEN "Unknown"
    ELSE IF RatGe(sand, 85) THEN "Sandy"
    ELSE IF RatGe(clay, 40) THEN "Clay"
    ELSE IF RatGe(silt, 80) THEN "Silty"
    ELSE IF RatGe(sand, 70) THEN "Sandy Loam"
    ELSE IF RatGe(clay, 27) /\ RatGe(silt, 28) /\ RatLe(sand, 45)
         THEN "Clay Loam"
    ELSE "Loam"

GetDefaultProperties ==
    [clay |-> 0, sand |-> 0, silt |-> 0, organic_matter |-> 0, ph |-> 700,
     nitrogen |-> 0]

\* soc * 0.058 in millionths (NaN stays NaN)
SocToOrganic(soc) == IF IsNum(soc) THEN JNum(soc.v * 58) ELSE soc

\* Normalise with the rescaling left out
NormaliseSkipped(x, total) == Rat(x, 1000)

\* (x / total) * 100 as a rational percentage, when total > 0
Normalise(x, total) == IF total > 0 THEN Rat(x * 100, total) ELSE Rat(x, 1000)

\* round(x, 2) of the float nearest to the rational x, in hundredths
Round2(x) == Round(x.n, x.d, 2)

\* the numbers the classifier compares each percentage with
ClayThresholds == {27, 40}
SandThresholds == {45, 70, 85}
SiltThresholds == {28, 80}

\* the percentage as the classifier sees it: x is its exact value and fx
\* the float the program computed for it, which differs from x by a rounding
\* error only; where x equals a threshold the comparisons with it go the way
\* of the float, which is at, just above or just below the threshold
AsComputed(x, fx, thresholds) ==
    IF \E k \in thresholds : x.n = k * x.d
    THEN Rat(2 * x.n + FCmp(fx, FInt(CHOOSE k \in thresholds : x.n = k * x.d)),
             2 * x.d)
    ELSE x

\* round(fx, ndigits) of a float fx the program computed for the exact value
\* n/d: the rounding of n/d unless that is a tie
RoundComputed(n, d, fx, ndigits) ==
    IF AtTie(n, d, ndigits) THEN FRound(fx, ndigits)
    ELSE RoundExact(n, d, ndigits)

\* the return statement of _analyze_soil_properties (lines 217-224), from
\* the exact values and the floats f the program has for them
SoilResult(clay, sand, silt, organic_matter, ph, nitrogen, f) ==
    << ClassifySoilType(AsComputed(clay, f.clay, ClayThresholds),
                        AsComputed(sand, f.sand, SandThresholds),
                        AsComputed(silt, f.silt, SiltThresholds)),
       [clay |-> RoundComputed(clay.n, clay.d, f.clay, 2),
        sand |-> RoundComputed(sand.n, sand.d, f.sand, 2),
        silt |-> RoundComputed(silt.n, silt.d, f.silt, 2),
        organic_matter |->
            RoundComputed(organic_matter, 1000000, f.organic_matter, 2),
        ph |-> Round(ph, 1000, 2),
        nitrogen |-> RoundComputed(nitrogen, 100000000, f.nitrogen, 3)] >>

\* _analyze_soil_properties: <<soil_type, properties>>.  The percentages
\* are followed in thousandths (clay0, sand0, silt0, ph), organic_matter in
\* millionths and nitrogen in units of 10^-8, exactly; SoilFloats are the
\* floats of the program for the same quantities, which decide where an
\* exact value sits on a threshold or on a rounding tie.
AnalyzeSoilProperties(soil_layers) ==
    LET rawClay == GetLayerProperty(soil_layers, "clay")
        rawSand == GetLayerProperty(soil_layers, "sand")
        rawSoc  == GetLayerProperty(soil_layers, "soc")
        rawPh   == GetLayerProperty(soil_layers, "phh2o")
    IN  IF \E r \in {rawClay, rawSand, rawSoc, rawPh} : r.t = "raise"
        THEN <<"Unknown", GetDefaultProperties>>
        ELSE
        LET clay0 == Clamp(0, 100000, rawClay).v
            sand0 == Clamp(0, 100000, rawSand).v
            silt0 == Clamp(0, 100000, JNum(100000 - clay0 - sand0)).v
            total == clay0 + sand0 + silt0
            clay  == Normalise(clay0, total)
            sand  == Normalise(sand0, total)
            silt  == Normalise(silt0, total)
            organic_matter == Clamp(0, 100000000, SocToOrganic(rawSoc)).v
            ph0   == Clamp(0, 14000, rawPh).v
            ph    == IF ph0 = 0 THEN 7000 ELSE ph0
            nitrogen == Clamp(0, 500000000, JNum(organic_matter * 5)).v
        IN  SoilResult(clay, sand, silt, organic_matter, ph, nitrogen,
                       SoilFloats(clay0, sand0, rawSoc))

\* round(fx, ndigits) as RoundComputed, of a float fx that is a
\* numpy.float64 when float64 holds and a Python float otherwise
RoundComputedAs(float64, n, d, fx, ndigits) ==
    IF AtTie(n, d, ndigits)
    THEN (IF float64 THEN Float64Round(fx, ndigits) ELSE FRound(fx, ndigits))
    ELSE RoundExact(n, d, ndigits)

---------------------------------------------------------------------------
(* FreeSoilAnalyzer: NASA POWER aggregates and moisture *)

RECURSIVE SumSeq(_)
SumSeq(s) == IF s = <<>> THEN 0 ELSE Head(s).v + SumSeq(Tail(s))

\* SafeGetNasaValue dividing by the length of the whole series, null
\* entries included
SafeGetNasaValueCountsNulls(parameters, key) ==
    IF parameters.t # "dict" THEN Rat(0, 1)
    ELSE IF key \notin DOMAIN parameters.series THEN Rat(0, 1)
    ELSE LET values == parameters.series[key]
             valid_values == SelectSeq(values, LAMBDA v : v.t # "null")
         IN  IF Len(values) = 0 THEN Rat(0, 1)
             ELSE IF \E i \in 1..Len(valid_values) : valid_values[i].t = "str"
                  THEN Rat(0, 1)
             ELSE IF Len(valid_values) = 0 THEN Rat(0, 1)
             ELSE IF \E i \in 1..Len(valid_values) : valid_values[i].t = "nan"
                  THEN RatNaN
             ELSE Rat(SumSeq(valid_values), Len(values))

\* _safe_get_nasa_value: mean of the non-null entries of parameters[key];
\* a missing key, an empty series, no valid entry, or any exception give 0.0.
\* The mean is the numpy.float64 np.mean returns (line 104), the 0.0 a
\* Python float: a value that is not 0 is always a numpy.float64.
SafeGetNasaValue(parameters, key) ==
    IF parameters.t # "dict" THEN Rat(0, 1)
    ELSE IF key \notin DOMAIN parameters.series THEN Rat(0, 1)
    ELSE LET values == parameters.series[key]
             valid_values == SelectSeq(values, LAMBDA v : v.t # "null")
         IN  IF Len(values) = 0 THEN Rat(0, 1)
             ELSE IF \E i \in 1..Len(valid_values) : valid_values[i].t = "str"
                  THEN Rat(0, 1)
             ELSE IF Len(valid_values) = 0 THEN Rat(0, 1)
             ELSE IF \E i \in 1..Len(valid_values) : valid_values[i].t = "nan"
                  THEN RatNaN
             ELSE Rat(SumSeq(valid_values), Len(valid_values))

\* max(lo, min(hi, x)) hands back x itself, the numpy.float64 of a mean,
\* and not one of the integers lo and hi (lines 171-173)
StaysFloat64(lo, hi, x) == x.t = "num" /\ x.n < hi * x.d /\ x.n > lo * x.d

\* max(lo, min(hi, x)) of integers
ClampInt(lo, hi, x) == IF x > hi THEN hi ELSE IF x < lo THEN lo ELSE x

\* _estimate_moisture_content, in hundredths of a percent.  With P, H, T the
\* clamped precipitation, humidity and temperature and c, s the stored clay
\* and sand (hundredths):
\*   moisture = (0.6 c + 0.2 s)/100 * (0.4 + 0.3 P/100 + 0.2 H/100 - 0.1 T/40)
\*            = (3 c + s) * (800 + 6 P + 4 H - 5 T) / 10^6
\* exactly; MoistureFloat is the float the program computes for it, operation by
\* operation, which decides the rounding where the exact value is a tie.
\* The three arguments are the averages of _safe_get_nasa_value; when one of
\* them passes its clamp the product is a numpy.float64 and round() of line
\* 187 is numpy's, otherwise the product is a Python float.
EstimateMoistureContent(precipitation, temperature, humidity, soil_props) ==
    LET T == ClampRat(0, 40, temperature)
        P == ClampRat(0, 100, precipitation)
        H == ClampRat(0, 100, humidity)
        D == P.d * H.d * T.d
        F == 800 * D + 6 * P.n * H.d * T.d + 4 * H.n * P.d * T.d
                 - 5 * T.n * P.d * H.d
    IN  ClampInt(0, 10000,
                 RoundComputedAs(
                     \/ StaysFloat64(0, 40, temperature)
                     \/ StaysFloat64(0, 100, precipitation)
                     \/ StaysFloat64(0, 100, humidity),
                     (3 * soil_props.clay + soil_props.sand) * F,
                     1000000 * D,
                     MoistureFloat(T, P, H, soil_props.clay, soil_props.sand),
                     2))

\* round(avg, 2) if avg != 0 else None: an avg that is not 0 is the
\* numpy.float64 of np.mean, and round() of it is numpy's
RoundOrNone(avg) ==
    IF avg.t = "nan" THEN JNaN
    ELSE IF avg.n = 0 THEN JNull
    ELSE JNum(RoundComputedAs(TRUE, avg.n, avg.d,
                              FFromRat(avg.n, avg.d), 2))

\* dict.get(key, {}) on a payload that may not be a dict at all
IsDict(x) == x.kind \in {"empty", "dict"}

\* _process_soil_data lines 126-150: the profile, from the averages and the
\* pair `analysed` that _analyze_soil_properties returned
SoilProfile(weather, nasa, avg_temp, avg_precip, avg_humidity, analysed) ==
    LET soil_type == analysed[1]
        \* line 126 rebinds the name soil_properties to the
        \* properties dictionary, which is never empty
        soil_properties2 == analysed[2]
    IN  [status |-> "ok",
         message |-> "",
         moisture_content |->
             EstimateMoistureContent(avg_precip, avg_temp,
                                     avg_humidity, soil_properties2),
         soil_type |-> soil_type,
         organic_matter |-> soil_properties2.organic_matter,
         ph_level |-> soil_properties2.ph,
         nitrogen_content |-> soil_properties2.nitrogen,
         temperature_celsius |-> RoundOrNone(avg_temp),
         precipitation_mm |-> RoundOrNone(avg_precip),
         humidity_percent |-> RoundOrNone(avg_humidity),
         clay_content_percent |-> soil_properties2.clay,
         sand_content_percent |-> soil_properties2.sand,
         silt_content_percent |-> soil_properties2.silt,
         timestamp |-> now,
         data_sources |-> {"OpenWeatherMap API", "NASA POWER API",
                           "ISRIC SoilGrids API"},
         weather_data_available |-> Truthy(weather),
         nasa_data_available |-> Truthy(nasa),
         soil_data_available |-> TRUE]

\* _process_soil_data; [status |-> "raise"] when an exception escapes it.
\* The timestamp is datetime.now() at the call, the clock reading `now`.
ProcessSoilData(weather, nasa, soil) ==
    IF ~IsDict(nasa) THEN [status |-> "raise", message |-> "AttributeError"]
    ELSE
    LET nasa_properties == IF nasa.kind = "dict" THEN nasa.properties
                           ELSE [t |-> "dict", parameter |-> [t |-> "dict", series |-> <<>>]]
    IN  IF nasa_properties.t # "dict"
        THEN [status |-> "raise", message |-> "AttributeError"]
        ELSE
        LET parameters == nasa_properties.parameter
            avg_temp     == SafeGetNasaValue(parameters, "T2M")
            avg_precip   == SafeGetNasaValue(parameters, "PRECTOT")
            avg_humidity == SafeGetNasaValue(parameters, "RH2M")
        IN  IF ~IsDict(soil) THEN [status |-> "raise", message |-> "AttributeError"]
            ELSE
            LET soil_props0 == IF soil.kind = "dict" THEN soil.properties
                               ELSE [t |-> "dict", layers |-> <<>>]
            IN  IF soil_props0.t # "dict"
                THEN [status |-> "raise", message |-> "AttributeError"]
                ELSE
                SoilProfile(weather, nasa, avg_temp, avg_precip, avg_humidity,
                            AnalyzeSoilProperties(soil_props0.layers))

\* _generate_fallback_analysis: a fixed record; takes no argument
GenerateFallbackAnalysis ==
    [status |-> "error",
     message |-> "Unable to retrieve soil data. Please check your coordinates and try again.",
     moisture_content |-> 0,
     soil_type |-> "Unknown",
     organic_matter |-> 0,
     ph_level |-> 700,
     nitrogen_content |-> 0,
     temperature_celsius |-> JNull,
     precipitation_mm |-> JNull,
     humidity_percent |-> JNull,
     clay_content_percent |-> 0,
     sand_content_percent |-> 0,
     silt_content_percent |-> 0,
     timestamp |-> now,
     data_sources |-> {},
     weather_data_available |-> FALSE,
     nasa_data_available |-> FALSE,
     soil_data_available |-> FALSE]

---------------------------------------------------------------------------
(* Inputs: what the user types and what the three services answer *)

\* float(input(...)): a number (whole degrees), NaN, or ValueError (JStr)
LatInputs == {JNum(0), JNum(90), JNum(-91), JNum(200), JNaN, JStr}
LonInputs == {JNum(0), JNum(181), JNum(-181), JNaN, JStr}

\* ways a request fails: requests.get raises (timeout, connection),
\* raise_for_status raises (http_error), response.json() raises (bad_body)
FailureModes == {"timeout", "connection", "http_error", "bad_body"}

\* bodies the weather service may answer with
WeatherBodies ==
    {EmptyDict,
     [kind |-> "dict", main |-> [temp |-> JNum(25), humidity |-> JNum(60)]]}

RECURSIVE SeqsUpTo(_, _)
SeqsUpTo(S, n) ==
    IF n = 0 THEN {<<>>}
    ELSE LET shorter == SeqsUpTo(S, n - 1)
         IN  shorter \cup {Append(q, x) : q \in {r \in shorter : Len(r) = n - 1}, x \in S}

NasaBody(series) ==
    [kind |-> "dict",
     properties |-> [t |-> "dict", parameter |-> [t |-> "dict", series |-> series]]]

\* bodies the NASA POWER service may answer with (daily values in whole units)
NasaBodies ==
    {EmptyDict,
     [kind |-> "list"],
     [kind |-> "dict", properties |-> [t |-> "null"]],
     [kind |-> "dict", properties |-> [t |-> "dict", parameter |-> [t |-> "null"]]]}
    \cup {NasaBody([T2M |-> ts, PRECTOT |-> <<JNum(30)>>, RH2M |-> <<JNum(60)>>]) :
             ts \in SeqsUpTo({JNull, JNum(20), JNum(44)}, MaxDays)}
    \cup {NasaBody([T2M |-> <<JNum(-10), JNum(34)>>, PRECTOT |-> ps, RH2M |-> hs]) :
             ps \in {<<JNum(0)>>, <<JNum(150), JNull>>},
             hs \in {<<JStr>>, <<JNaN, JNum(50)>>, <<JNum(54), JNum(60)>>}}
    \cup {NasaBody([T2M |-> <<JNum(20)>>])}

\* one layer in the shape _get_layer_property reads: layer[property]['value']
FlatLayer(clay, sand, soc, ph) ==
    [p \in {q \in {"clay", "sand", "soc", "phh2o"} :
              (CASE q = "clay" -> clay [] q = "sand" -> sand
                 [] q = "soc" -> soc [] OTHER -> ph).t # "missing"} |->
        [value |-> CASE p = "clay" -> clay [] p = "sand" -> sand
                     [] p = "soc" -> soc [] OTHER -> ph]]

\* a layer in the shape _get_layer_property reads that also carries a silt
\* value, which the analyzer never asks for
FlatLayerWithSilt(clay, sand, silt) ==
    [clay |-> [value |-> clay], sand |-> [value |-> sand],
     silt |-> [value |-> silt], soc |-> [value |-> JNum(20000)],
     phh2o |-> [value |-> JNum(6500)]]

\* one layer in the shape the SoilGrids service answers with (combined.py
\* lines 119-123): a property name and depth-indexed value records
GridLayer(name, mean) ==
    [name |-> name, depths |-> << [values |-> [mean |-> mean]] >>]

SoilBody(layers) ==
    [kind |-> "dict", properties |-> [t |-> "dict", layers |-> layers]]

JMissing == [t |-> "missing", v |-> 0]
\* an integer beyond the float range: float() of it raises OverflowError
JBig     == [t |-> "big", v |-> 0]

PctSamples == {JNum(k * 16666) : k \in (-1)..MaxPctStep}

\* bodies the SoilGrids service may answer with (values in thousandths)
SoilBodies ==
    {EmptyDict,
     [kind |-> "list"],
     [kind |-> "dict", properties |-> [t |-> "list"]],
     SoilBody(<<>>),
     SoilBody(<<GridLayer("clay", JNum(30000)), GridLayer("sand", JNum(40000)),
                GridLayer("soc", JNum(20000)), GridLayer("phh2o", JNum(6500))>>),
     SoilBody(<<GridLayer("sand", JNum(90000)), GridLayer("clay", JNum(5000))>>)}
    \cup {SoilBody(<<FlatLayer(c, s, JNum(20000), JNum(6500))>>) :
             c \in PctSamples \cup {JNum(30000), JMissing, JNull, JNaN, JBig},
             s \in PctSamples \cup {JNum(30000), JMissing, JStr, JNaN, JBig}}
    \cup {SoilBody(<<FlatLayer(JNum(30000), JNum(40000), o, h)>>) :
             o \in {JMissing, JNum(0), JNum(600000), JNum(2000000), JNaN, JBig},
             h \in {JMissing, JNum(0), JNum(-1000), JNum(2500), JNum(15000), JNaN,
                    JBig}}
    \cup {SoilBody(<<FlatLayerWithSilt(JNum(tr[1]), JNum(tr[2]), JNum(tr[3]))>>) :
             tr \in {<<30000, 30000, 30000>>, <<20000, 30000, 50000>>,
                     <<10000, 20000, 30000>>, <<0, 0, 0>>}}

\* not (-90 <= latitude <= 90) or not (-180 <= longitude <= 180)
ValidCoordinates(lat, lon) ==
    /\ IsNum(lat) /\ -90 <= lat.v /\ lat.v <= 90
    /\ IsNum(lon) /\ -180 <= lon.v /\ lon.v <= 180

---------------------------------------------------------------------------
(* NASA_SMAP.py: main() and FreeSoilAnalyzer.get_soil_data *)

\* self.last_request_time = None
NoTime == -1

NoTask == [st |-> "none", ret |-> "nothing", raised |-> FALSE, mode |-> "none"]
NoAnalysis == [kind |-> "nothing", success |-> FALSE, analysis |-> "",
               error |-> "", retries |-> 0]

\* the pipeline programs do not run
PipeIdle ==
    /\ prog = "none"
    /\ mpc = "none"
    /\ soilTask = NoTask
    /\ climTask = NoTask
    /\ retries = 0
    /\ attemptLog = <<>>
    /\ sleeps = <<>>
    /\ now = 0
    /\ last_request_time = NoTime
    /\ aresult = NoAnalysis
    /\ mprinted = "nothing"
    /\ invocation = 0

\* no classifier call is being observed
ClassifyIdle ==
    /\ c_pc = "none"
    /\ c_clay = JNull
    /\ c_sand = JNull
    /\ c_silt = JNull
    /\ c_label = "none"

\* no _safe_get_nasa_value call is being observed
AggregateIdle ==
    /\ g_pc = "none"
    /\ g_parameters = [t |-> "null"]
    /\ g_key = "none"
    /\ g_value = RatNone

\* the threads running an ERA5 fetch
Threads == {1, 2}

\* no ERA5 fetch call is being observed
Era5Idle ==
    /\ e_pc = [t \in Threads |-> "none"]
    /\ e_temp_file = [t \in Threads |-> NoTime]
    /\ e_files = {}
    /\ e_ds = [t \in Threads |-> {}]
    /\ e_var = [t \in Threads |-> 0]
    /\ e_read = [t \in Threads |-> {}]
    /\ e_clobbered = [t \in Threads |-> {}]
    /\ e_result = [t \in Threads |-> "none"]
    /\ e_now = 0

\* the single-call specifications other than SpecClassify do not run
AuxIdle == AggregateIdle /\ Era5Idle

NoFetch == [source |-> "none", mode |-> "none", returned |-> EmptyDict,
            raised |-> FALSE]
NoResult == [status |-> "none"]

Init ==
    /\ pc = "input"
    /\ latitude = JNull
    /\ longitude = JNull
    /\ calls = <<>>
    /\ lastFetch = NoFetch
    /\ weather_data = EmptyDict
    /\ nasa_data = EmptyDict
    /\ soil_properties = EmptyDict
    /\ soil_data = NoResult
    /\ printed = "nothing"
    /\ PipeIdle
    /\ ClassifyIdle
    /\ AuxIdle

\* what a fetcher of FreeSoilAnalyzer returns: response.json() on success,
\* {} from its `except Exception` on every failure
FetchReturn(mode, body) == IF mode = "ok" THEN body ELSE EmptyDict

\* main lines 305-311 and 316-317: read and validate the coordinates; the
\* last thing main wrote before it calls get_soil_data is the prompt of the
\* second input()
ReadCoordinates ==
    /\ pc = "input"
    /\ \E lat \in LatInputs, lon \in LonInputs :
          /\ latitude' = lat
          /\ longitude' = IF lat.t = "str" THEN JNull ELSE lon
          /\ IF lat.t # "str" /\ lon.t # "str" /\ ValidCoordinates(lat, lon)
             THEN pc' = "weather" /\ printed' = "Enter longitude: "
             ELSE pc' = "done" /\ printed' = "Error"
    /\ UNCHANGED <<calls, lastFetch, weather_data, nasa_data, soil_properties,
                   soil_data>>
    /\ UNCHANGED pipeVars
    /\ UNCHANGED clsVars
    /\ UNCHANGED auxVars

\* get_soil_data(latitude, longitude) called on the analyzer without main
\* (line 22): the function takes the two floats as they are, nothing between
\* its entry and the first fetch looks at them, and main has printed nothing
CallGetSoilData ==
    /\ pc = "input"
    /\ \E c \in {<<JNum(200), JNum(0)>>, <<JNum(0), JNum(-181)>>} :
          /\ latitude' = c[1]
          /\ longitude' = c[2]
    /\ pc' = "weather"
    /\ UNCHANGED <<calls, lastFetch, weather_data, nasa_data, soil_properties,
                   soil_data, printed>>
    /\ UNCHANGED pipeVars
    /\ UNCHANGED clsVars
    /\ UNCHANGED auxVars

\* _get_weather_data (line 26)
GetWeatherData ==
    /\ pc = "weather"
    /\ \E mode \in FailureModes \cup {"ok"}, body \in WeatherBodies :
          /\ mode # "ok" => body = EmptyDict
          /\ weather_data' = FetchReturn(mode, body)
          /\ lastFetch' = [source |-> "weather", mode |-> mode,
                           returned |-> FetchReturn(mode, body), raised |-> FALSE]
    /\ calls' = Append(calls, "weather")
    /\ pc' = "nasa"
    /\ UNCHANGED <<latitude, longitude, nasa_data, soil_properties, soil_data,
                   printed>>
    /\ UNCHANGED pipeVars
    /\ UNCHANGED clsVars
    /\ UNCHANGED auxVars

\* _get_nasa_power_data (line 27)
GetNasaPowerData ==
    /\ pc = "nasa"
    /\ \E mode \in FailureModes \cup {"ok"}, body \in NasaBodies :
          /\ mode # "ok" => body = EmptyDict
          /\ nasa_data' = FetchReturn(mode, body)
          /\ lastFetch' = [source |-> "nasa", mode |-> mode,
                           returned |-> FetchReturn(mode, body), raised |-> FALSE]
    /\ calls' = Append(calls, "nasa")
    /\ pc' = "soil"
    /\ UNCHANGED <<latitude, longitude, weather_data, soil_properties, soil_data,
                   printed>>
    /\ UNCHANGED pipeVars
    /\ UNCHANGED clsVars
    /\ UNCHANGED auxVars

\* _get_soilgrids_data (line 28)
GetSoilgridsData ==
    /\ pc = "soil"
    /\ \E mode \in FailureModes \cup {"ok"}, body \in SoilBodies :
          /\ mode # "ok" => body = EmptyDict
          /\ soil_properties' = FetchReturn(mode, body)
          /\ lastFetch' = [source |-> "soil", mode |-> mode,
                           returned |-> FetchReturn(mode, body), raised |-> FALSE]
    /\ calls' = Append(calls, "soil")
    /\ pc' = "process"
    /\ UNCHANGED <<latitude, longitude, weather_data, nasa_data, soil_data,
                   printed>>
    /\ UNCHANGED pipeVars
    /\ UNCHANGED clsVars
    /\ UNCHANGED auxVars

\* GetSoilData without the try/except of get_soil_data
GetSoilDataNoCatch ==
    /\ pc = "process"
    /\ soil_data' = ProcessSoilData(weather_data, nasa_data, soil_properties)
    /\ printed' = IF printed = "Enter longitude: "
                  THEN "Soil Analysis Results" ELSE printed
    /\ pc' = "done"
    /\ UNCHANGED <<latitude, longitude, calls, lastFetch, weather_data, nasa_data,
                   soil_properties>>
    /\ UNCHANGED pipeVars
    /\ UNCHANGED clsVars
    /\ UNCHANGED auxVars

\* get_soil_data lines 31-34: what _process_soil_data built, or the fallback
\* when an exception escaped it
ProfileOrFallback(built) ==
    IF built.status = "raise" THEN GenerateFallbackAnalysis ELSE built

\* get_soil_data lines 31-34: build the profile, or the fallback when an
\* exception escapes _process_soil_data; main lines 313-315 print it when
\* main made the call
GetSoilData ==
    /\ pc = "process"
    /\ soil_data' = ProfileOrFallback(
                        ProcessSoilData(weather_data, nasa_data, soil_properties))
    /\ printed' = IF printed = "Enter longitude: "
                  THEN "Soil Analysis Results" ELSE printed
    /\ pc' = "done"
    /\ UNCHANGED <<latitude, longitude, calls, lastFetch, weather_data, nasa_data,
                   soil_properties>>
    /\ UNCHANGED pipeVars
    /\ UNCHANGED clsVars
    /\ UNCHANGED auxVars

\* seconds that may pass between two calls of the builder
Elapsed == {0, 1}

\* a caller holds the analyzer object and three payloads equal to those
\* get_soil_data fetched; time passes before it calls the builder on them
TimePasses ==
    /\ pc = "done"
    /\ soil_data # NoResult
    /\ \E d \in Elapsed : now' = now + d
    /\ pc' = "again"
    /\ UNCHANGED smapVarsButPc
    /\ UNCHANGED <<invocation, prog, mpc, soilTask, climTask, retries, attemptLog, sleeps,
                   last_request_time, aresult, mprinted>>
    /\ UNCHANGED clsVars
    /\ UNCHANGED auxVars

\* _process_soil_data(weather_data, nasa_data, soil_properties) (lines
\* 107-159) called on the same analyzer object with the same three
\* payloads, without get_soil_data around it: no request is made, and an
\* exception reaches the caller ([status |-> "raise"]) in place of a record
ProcessSoilDataAgain ==
    /\ pc = "again"
    /\ soil_data' = ProcessSoilData(weather_data, nasa_data, soil_properties)
    /\ pc' = "rebuilt"
    /\ UNCHANGED <<latitude, longitude, calls, lastFetch, weather_data, nasa_data,
                   soil_properties, printed>>
    /\ UNCHANGED pipeVars
    /\ UNCHANGED clsVars
    /\ UNCHANGED auxVars

Next ==
    \/ ReadCoordinates
    \/ CallGetSoilData
    \/ GetWeatherData
    \/ GetNasaPowerData
    \/ GetSoilgridsData
    \/ GetSoilData
    \/ TimePasses
    \/ ProcessSoilDataAgain

Spec == Init /\ [][Next]_vars

---------------------------------------------------------------------------
(* combined.py (IntegratedSoilAnalyzer) and open_soil_grid.py              *)
(* (SoilClimateAnalyzer): fetch operations                                 *)

\* self.max_retries, self.retry_delay, self.min_request_interval
max_retries == 3
retry_delay == 5
min_request_interval == 2

\* IntegratedSoilAnalyzer.get_soilgrid_data: `except Exception` returns None
GetSoilgridData(mode) ==
    [st |-> "done", ret |-> IF mode = "ok" THEN "DataFrame" ELSE "None",
     raised |-> FALSE, mode |-> mode]

\* IntegratedSoilAnalyzer.get_era5_data: `except Exception` prints and re-raises
GetEra5Data(mode) ==
    [st |-> "done", ret |-> IF mode = "ok" THEN "data" ELSE "nothing",
     raised |-> mode # "ok", mode |-> mode]

\* SoilClimateAnalyzer.fetch_soilgrid_data: `except Exception` raises RuntimeError
FetchSoilgridData(mode) ==
    [st |-> "done", ret |-> IF mode = "ok" THEN "DataFrame" ELSE "nothing",
     raised |-> mode # "ok", mode |-> mode]

\* SoilClimateAnalyzer.fetch_era5_data: `except Exception` raises RuntimeError
FetchEra5Data(mode) ==
    [st |-> "done", ret |-> IF mode = "ok" THEN "data" ELSE "nothing",
     raised |-> mode # "ok", mode |-> mode]

---------------------------------------------------------------------------
(* the analysis retry loops *)

\* what one model request does: raises (a transport failure mode), answers
\* with empty generated text, or answers with text
AttemptOutcomes ==
    {[kind |-> "exception", text |-> m] : m \in FailureModes}
    \cup {[kind |-> "empty", text |-> ""]}
    \cup {[kind |-> "text", text |-> t] : t \in {"analysis A", "analysis B"}}

\* seconds one model request may take
Durations == {0, 3}

\* a rate limiter that never waits
RateLimitSleepNever(t, last) == 0

\* the rate limiter at the head of each attempt: sleep
\* min_request_interval - elapsed when a previous request is that recent
RateLimitSleep(t, last) ==
    IF last # NoTime /\ t - last < min_request_interval
    THEN min_request_interval - (t - last) ELSE 0

\* BackoffDelay growing linearly: retry_delay * retries
BackoffDelayLinear(n) == retry_delay * n

\* combined.py line 210: time.sleep(self.retry_delay * (2 ** retries))
BackoffDelay(n) == retry_delay * (2 ^ n)

\* LoopContinues off by one: the loops give up one attempt early
LoopContinuesOffByOne(n) == n < max_retries - 1

\* does the retry loop run another iteration: `while retries <
\* self.max_retries` (combined.py), `for attempt in range(self.max_retries)`
\* (open_soil_grid.py)
LoopContinues(n) == n < max_retries

SleepEntries(wait, backoff) ==
    (IF wait > 0 THEN <<[why |-> "rate_limit", delay |-> wait]>> ELSE <<>>)
    \o (IF backoff > 0 THEN <<[why |-> "backoff", delay |-> backoff]>> ELSE <<>>)

\* one iteration of the while loop of analyze_combined_data (lines 155-210),
\* and the return after the loop (lines 212-221) when it was the last
AttemptCombined ==
    /\ prog = "combined"
    /\ mpc = "analyze"
    /\ LoopContinues(retries)
    /\ \E out \in AttemptOutcomes, dur \in Durations :
          LET wait     == RateLimitSleep(now, last_request_time)
              failed   == out.kind # "text"
              retries1 == retries + 1
              backoff  == IF failed /\ LoopContinues(retries1)
                          THEN BackoffDelay(retries1) ELSE 0
          IN  /\ last_request_time' = now + wait
              /\ attemptLog' = Append(attemptLog, out)
              /\ sleeps' = sleeps \o SleepEntries(wait, backoff)
              /\ now' = now + wait + dur + backoff
              /\ IF ~failed
                 THEN /\ retries' = retries
                      /\ aresult' = [kind |-> "dict", success |-> TRUE,
                                     analysis |-> out.text, error |-> "",
                                     retries |-> retries]
                      /\ mpc' = "report"
                 ELSE /\ retries' = retries1
                      /\ IF LoopContinues(retries1)
                         THEN aresult' = aresult /\ mpc' = mpc
                         ELSE /\ aresult' = [kind |-> "dict", success |-> FALSE,
                                             analysis |-> "",
                                             error |-> "Max retries exceeded",
                                             retries |-> max_retries]
                              /\ mpc' = "report"
    /\ UNCHANGED <<invocation, prog, soilTask, climTask, mprinted>>
    /\ UNCHANGED smapVars
    /\ UNCHANGED clsVars
    /\ UNCHANGED auxVars

\* open_soil_grid.py line 150: is this the attempt whose exception is returned
IsLastAttempt(attempt) == attempt = max_retries - 1

\* one iteration of the for loop of analyze_data (lines 124-151); an
\* iteration that neither returns nor raises just ends, and after the last
\* one the function falls off its end and returns None
AttemptOpenGrid ==
    /\ prog = "opengrid"
    /\ mpc = "analyze"
    /\ LoopContinues(retries)
    /\ \E out \in AttemptOutcomes, dur \in Durations :
          LET wait == RateLimitSleep(now, last_request_time)
          IN  /\ last_request_time' = now + wait
              /\ attemptLog' = Append(attemptLog, out)
              /\ sleeps' = sleeps \o SleepEntries(wait, 0)
              /\ now' = now + wait + dur
              /\ retries' = retries + 1
              /\ CASE out.kind = "text" ->
                        /\ aresult' = [kind |-> "dict", success |-> TRUE,
                                       analysis |-> out.text, error |-> "",
                                       retries |-> retries]
                        /\ mpc' = "report"
                   [] out.kind = "exception" /\ IsLastAttempt(retries) ->
                        /\ aresult' = [kind |-> "dict", success |-> FALSE,
                                       analysis |-> "", error |-> out.text,
                                       retries |-> retries]
                        /\ mpc' = "report"
                   [] OTHER ->
                        IF LoopContinues(retries + 1)
                        THEN aresult' = aresult /\ mpc' = mpc
                        ELSE /\ aresult' = [kind |-> "None", success |-> FALSE,
                                            analysis |-> "", error |-> "",
                                            retries |-> retries]
                             /\ mpc' = "report"
    /\ UNCHANGED <<invocation, prog, soilTask, climTask, mprinted>>
    /\ UNCHANGED smapVars
    /\ UNCHANGED clsVars
    /\ UNCHANGED auxVars

---------------------------------------------------------------------------
(* main() of combined.py and open_soil_grid.py *)

InitPipeline ==
    /\ prog \in {"combined", "opengrid"}
    /\ mpc = "token"
    /\ soilTask = [NoTask EXCEPT !.st = "pending"]
    /\ climTask = [NoTask EXCEPT !.st = "pending"]
    /\ retries = 0
    /\ attemptLog = <<>>
    /\ sleeps = <<>>
    /\ now = 0
    /\ last_request_time = NoTime
    /\ aresult = NoAnalysis
    /\ mprinted = "nothing"
    /\ invocation = 1
    /\ pc = "none"
    /\ latitude = JNull
    /\ longitude = JNull
    /\ calls = <<>>
    /\ lastFetch = NoFetch
    /\ weather_data = EmptyDict
    /\ nasa_data = EmptyDict
    /\ soil_properties = EmptyDict
    /\ soil_data = NoResult
    /\ printed = "nothing"
    /\ ClassifyIdle
    /\ AuxIdle

\* os.getenv("HUGGINGFACE_TOKEN") and the test of it (combined.py 227-230,
\* open_soil_grid.py 163-165); the environment holds a token ("set") or
\* none, the variable being unset or empty ("unset"): without a token combined.py prints the error
\* and exits, open_soil_grid.py raises EnvironmentError, which main's handler
\* prints (line 187); neither submits a task
ReadToken ==
    /\ mpc = "token"
    /\ \E token \in {"set", "unset"} :
          IF token = "unset"
          THEN /\ mpc' = "done"
               /\ mprinted' =
                     IF prog = "combined"
                     THEN "Error: HUGGINGFACE_TOKEN environment variable not set."
                     ELSE "Error: HUGGINGFACE_TOKEN not set."
          ELSE /\ mpc' = "construct"
               /\ mprinted' = mprinted
    /\ UNCHANGED <<invocation, prog, soilTask, climTask, retries, attemptLog,
                   sleeps, now, last_request_time, aresult>>
    /\ UNCHANGED smapVars
    /\ UNCHANGED clsVars
    /\ UNCHANGED auxVars

\* analyzer = IntegratedSoilAnalyzer(huggingface_token) (combined.py 233),
\* SoilClimateAnalyzer(token) (open_soil_grid.py 167): the constructor keeps
\* the token and builds cdsapi.Client(), which raises when the CDS client
\* has no configuration; the exception ends main in its handler
ConstructAnalyzer ==
    /\ mpc = "construct"
    /\ \E client \in {"ok", "raise"} :
          IF client = "raise"
          THEN /\ mpc' = "done"
               /\ mprinted' = IF prog = "combined"
                              THEN "Critical error during execution"
                              ELSE "Error"
          ELSE /\ mpc' = "submit"
               /\ mprinted' = mprinted
    /\ UNCHANGED <<invocation, prog, soilTask, climTask, retries, attemptLog,
                   sleeps, now, last_request_time, aresult>>
    /\ UNCHANGED smapVars
    /\ UNCHANGED clsVars
    /\ UNCHANGED auxVars

\* soil_future = executor.submit(...) (combined.py 245, open_soil_grid.py
\* 172): the SoilGrids fetch is handed to a worker thread and may run at once
SubmitSoil ==
    /\ mpc = "submit"
    /\ soilTask' = [soilTask EXCEPT !.st = "running"]
    /\ mpc' = "submit_climate"
    /\ UNCHANGED <<invocation, prog, climTask, retries, attemptLog, sleeps, now,
                   last_request_time, aresult, mprinted>>
    /\ UNCHANGED smapVars
    /\ UNCHANGED clsVars
    /\ UNCHANGED auxVars

\* climate_future = executor.submit(...) (combined.py 246, open_soil_grid.py
\* 173): the ERA5 task exists only from here on
SubmitClimate ==
    /\ mpc = "submit_climate"
    /\ climTask' = [climTask EXCEPT !.st = "running"]
    /\ mpc' = "join_soil"
    /\ UNCHANGED <<invocation, prog, soilTask, retries, attemptLog, sleeps, now,
                   last_request_time, aresult, mprinted>>
    /\ UNCHANGED smapVars
    /\ UNCHANGED clsVars
    /\ UNCHANGED auxVars

\* the worker thread running the SoilGrids fetch completes
SoilTaskFinish ==
    /\ soilTask.st = "running"
    /\ \E mode \in FailureModes \cup {"ok"} :
          soilTask' = IF prog = "combined" THEN GetSoilgridData(mode)
                      ELSE FetchSoilgridData(mode)
    /\ UNCHANGED <<invocation, prog, mpc, climTask, retries, attemptLog, sleeps, now,
                   last_request_time, aresult, mprinted>>
    /\ UNCHANGED smapVars
    /\ UNCHANGED clsVars
    /\ UNCHANGED auxVars

\* the worker thread running the ERA5 fetch completes
ClimateTaskFinish ==
    /\ climTask.st = "running"
    /\ \E mode \in FailureModes \cup {"ok"} :
          climTask' = IF prog = "combined" THEN GetEra5Data(mode)
                      ELSE FetchEra5Data(mode)
    /\ UNCHANGED <<invocation, prog, mpc, soilTask, retries, attemptLog, sleeps, now,
                   last_request_time, aresult, mprinted>>
    /\ UNCHANGED smapVars
    /\ UNCHANGED clsVars
    /\ UNCHANGED auxVars

\* a future that is still running counts as completed
TaskDoneOrRunning(task) == task.st \in {"done", "running"}

\* Future.result() and the exit of the `with ThreadPoolExecutor` block both
\* block until the task has completed (returned or raised)
TaskDone(task) == task.st = "done"

\* soil_future.result(): returns the task's value or re-raises its exception
JoinSoil ==
    /\ mpc = "join_soil"
    /\ TaskDone(soilTask)
    /\ mpc' = IF soilTask.raised THEN "unwind" ELSE "join_climate"
    /\ UNCHANGED <<invocation, prog, soilTask, climTask, retries, attemptLog, sleeps, now,
                   last_request_time, aresult, mprinted>>
    /\ UNCHANGED smapVars
    /\ UNCHANGED clsVars
    /\ UNCHANGED auxVars

\* climate_future.result()
JoinClimate ==
    /\ mpc = "join_climate"
    /\ TaskDone(climTask)
    /\ mpc' = IF climTask.raised THEN "unwind" ELSE "joined"
    /\ UNCHANGED <<invocation, prog, soilTask, climTask, retries, attemptLog, sleeps, now,
                   last_request_time, aresult, mprinted>>
    /\ UNCHANGED smapVars
    /\ UNCHANGED clsVars
    /\ UNCHANGED auxVars

\* leaving the `with ThreadPoolExecutor` block waits for both tasks; then an
\* exception reaches main's handler, combined.py exits on a None result
\* (lines 253-255), and otherwise the analysis starts
LeaveExecutor ==
    /\ mpc \in {"unwind", "joined"}
    /\ TaskDone(soilTask)
    /\ TaskDone(climTask)
    /\ IF mpc = "unwind"
       THEN /\ mpc' = "done"
            /\ mprinted' = IF prog = "combined" THEN "Critical error during execution"
                           ELSE "Error"
       ELSE IF prog = "combined" /\ (soilTask.ret = "None" \/ climTask.ret = "None")
       THEN /\ mpc' = "done"
            /\ mprinted' = "Error: Failed to retrieve complete data."
       ELSE /\ mpc' = "analyze"
            /\ mprinted' = mprinted
    /\ UNCHANGED <<invocation, prog, soilTask, climTask, retries, attemptLog, sleeps, now,
                   last_request_time, aresult>>
    /\ UNCHANGED smapVars
    /\ UNCHANGED clsVars
    /\ UNCHANGED auxVars

\* main after the analysis returned (combined.py 262-276, open_soil_grid.py
\* 180-187); result.get on None raises inside main's try
Report ==
    /\ mpc = "report"
    /\ mprinted' = IF aresult.kind = "None" THEN "Error"
                   ELSE IF aresult.success THEN "Results saved"
                   ELSE "Analysis failed"
    /\ mpc' = "done"
    /\ UNCHANGED <<invocation, prog, soilTask, climTask, retries, attemptLog, sleeps, now,
                   last_request_time, aresult>>
    /\ UNCHANGED smapVars
    /\ UNCHANGED clsVars
    /\ UNCHANGED auxVars

\* a caller that keeps the analyzer object calls the analysis again, with
\* the same data, some seconds after the previous call returned: the locals
\* of the call start afresh (retries = 0, combined.py line 154; the for loop
\* of open_soil_grid.py line 124), self.last_request_time is what the
\* previous call left
AnalyzeAgain ==
    /\ mpc = "done"
    /\ attemptLog # <<>>
    /\ invocation = 1
    /\ invocation' = 2
    /\ \E d \in Elapsed : now' = now + d
    /\ retries' = 0
    /\ attemptLog' = <<>>
    /\ sleeps' = <<>>
    /\ aresult' = NoAnalysis
    /\ mpc' = "analyze"
    /\ UNCHANGED <<prog, soilTask, climTask, last_request_time, mprinted>>
    /\ UNCHANGED smapVars
    /\ UNCHANGED clsVars
    /\ UNCHANGED auxVars

NextPipeline ==
    \/ ReadToken
    \/ ConstructAnalyzer
    \/ SubmitSoil
    \/ SubmitClimate
    \/ SoilTaskFinish
    \/ ClimateTaskFinish
    \/ JoinSoil
    \/ JoinClimate
    \/ LeaveExecutor
    \/ AttemptCombined
    \/ AttemptOpenGrid
    \/ Report
    \/ AnalyzeAgain

SpecPipeline == InitPipeline /\ [][NextPipeline]_vars

---------------------------------------------------------------------------
(* a call of FreeSoilAnalyzer._classify_soil_type *)

\* triples with every component in [0,100] and sum exactly 100
UnitTriples ==
    LET N == 100 * ClassifyGridDen
        pairs == {p \in (0..N) \X (0..N) : p[1] + p[2] <= N}
    IN  {<<Rat(p[1], ClassifyGridDen), Rat(p[2], ClassifyGridDen),
           Rat(N - p[1] - p[2], ClassifyGridDen)>> : p \in pairs}

\* values at and next to every threshold of the tree, out-of-range values,
\* NaN, and arguments that are not numbers
EdgeValues ==
    {Rat(n, 2) : n \in {-2, 0, 53, 54, 55, 56, 79, 80, 89, 90, 91, 139, 140,
                        159, 160, 169, 170, 200, 202}}
    \cup {RatNaN, RatNone, RatStr}

\* the triples the classifier is called on
ClassifyInputs == UnitTriples \cup (EdgeValues \X EdgeValues \X EdgeValues)

InitClassify ==
    /\ c_pc = "call"
    /\ \E tr \in ClassifyInputs :
          /\ c_clay = tr[1]
          /\ c_sand = tr[2]
          /\ c_silt = tr[3]
    /\ c_label = "none"
    /\ pc = "none"
    /\ latitude = JNull
    /\ longitude = JNull
    /\ calls = <<>>
    /\ lastFetch = NoFetch
    /\ weather_data = EmptyDict
    /\ nasa_data = EmptyDict
    /\ soil_properties = EmptyDict
    /\ soil_data = NoResult
    /\ printed = "nothing"
    /\ PipeIdle
    /\ AuxIdle

\* _classify_soil_type(clay, sand, silt) returns
ClassifyCall ==
    /\ c_pc = "call"
    /\ c_label' = ClassifySoilType(c_clay, c_sand, c_silt)
    /\ c_pc' = "returned"
    /\ UNCHANGED <<c_clay, c_sand, c_silt>>
    /\ UNCHANGED smapVars
    /\ UNCHANGED pipeVars
    /\ UNCHANGED auxVars

NextClassify == ClassifyCall

SpecClassify == InitClassify /\ [][NextClassify]_vars

---------------------------------------------------------------------------
(* a call of FreeSoilAnalyzer._safe_get_nasa_value *)

\* entries a daily series may hold: null, numbers, NaN, a string that float()
\* rejects
DailyEntries == {JNull, JNum(-10), JNum(20), JNum(44), JNaN, JStr}

\* the `parameters` arguments of the call: a dictionary with one daily
\* series of up to MaxDays entries, an empty dictionary, and no dictionary
AggregateParameters ==
    {[t |-> "dict", series |-> [T2M |-> ts]] : ts \in SeqsUpTo(DailyEntries, MaxDays)}
    \cup {[t |-> "dict", series |-> <<>>], [t |-> "null"]}

\* the keys asked for; PRECTOT is missing from every dictionary
AggregateKeys == {"T2M", "PRECTOT"}

InitAggregate ==
    /\ g_pc = "call"
    /\ g_parameters \in AggregateParameters
    /\ g_key \in AggregateKeys
    /\ g_value = RatNone
    /\ pc = "none"
    /\ latitude = JNull
    /\ longitude = JNull
    /\ calls = <<>>
    /\ lastFetch = NoFetch
    /\ weather_data = EmptyDict
    /\ nasa_data = EmptyDict
    /\ soil_properties = EmptyDict
    /\ soil_data = NoResult
    /\ printed = "nothing"
    /\ PipeIdle
    /\ ClassifyIdle
    /\ Era5Idle

\* _safe_get_nasa_value(parameters, key) returns
AggregateCall ==
    /\ g_pc = "call"
    /\ g_value' = SafeGetNasaValue(g_parameters, g_key)
    /\ g_pc' = "returned"
    /\ UNCHANGED <<g_parameters, g_key>>
    /\ UNCHANGED smapVars
    /\ UNCHANGED pipeVars
    /\ UNCHANGED clsVars
    /\ UNCHANGED eraVars

NextAggregate == AggregateCall

SpecAggregate == InitAggregate /\ [][NextAggregate]_vars

---------------------------------------------------------------------------
(* two concurrent calls of get_era5_data (combined.py 37-107) or            *)
(* fetch_era5_data (open_soil_grid.py 35-84)                               *)

\* the files of the working directory named `name`
FilesNamed(name) == {f \in e_files : f.name = name}

\* os.path.exists(temp_file)
Exists(name) == FilesNamed(name) # {}

\* the threads whose downloads the files named `name` hold
Owners(name) == {f.by : f \in FilesNamed(name)}

InitEra5 ==
    /\ e_pc = [t \in Threads |-> "call"]
    /\ e_temp_file = [t \in Threads |-> NoTime]
    /\ e_files = {}
    /\ e_ds = [t \in Threads |-> {}]
    /\ e_var = [t \in Threads |-> 0]
    /\ e_read = [t \in Threads |-> {}]
    /\ e_clobbered = [t \in Threads |-> {}]
    /\ e_result = [t \in Threads |-> "none"]
    /\ e_now = 0
    /\ pc = "none"
    /\ latitude = JNull
    /\ longitude = JNull
    /\ calls = <<>>
    /\ lastFetch = NoFetch
    /\ weather_data = EmptyDict
    /\ nasa_data = EmptyDict
    /\ soil_properties = EmptyDict
    /\ soil_data = NoResult
    /\ printed = "nothing"
    /\ prog \in {"combined", "opengrid"}
    /\ mpc = "none"
    /\ soilTask = NoTask
    /\ climTask = NoTask
    /\ retries = 0
    /\ attemptLog = <<>>
    /\ sleeps = <<>>
    /\ now = 0
    /\ last_request_time = NoTime
    /\ aresult = NoAnalysis
    /\ mprinted = "nothing"
    /\ invocation = 0
    /\ ClassifyIdle
    /\ AggregateIdle

\* what an ERA5 step leaves alone
Era5Frame ==
    /\ UNCHANGED smapVars
    /\ UNCHANGED pipeVars
    /\ UNCHANGED clsVars
    /\ UNCHANGED aggVars

\* a second of wall-clock time passes
ClockTick ==
    /\ e_now < MaxSeconds
    /\ \E t \in Threads : e_pc[t] # "done"
    /\ e_now' = e_now + 1
    /\ UNCHANGED <<e_pc, e_temp_file, e_files, e_ds, e_var, e_read, e_clobbered,
                   e_result>>
    /\ Era5Frame

\* temp_file = f'temp_era5_data_{int(time.time())}.nc'
Era5TempFile(t) ==
    /\ e_pc[t] = "call"
    /\ e_temp_file' = [e_temp_file EXCEPT ![t] = e_now]
    /\ e_pc' = [e_pc EXCEPT ![t] = "retrieve"]
    /\ UNCHANGED <<e_files, e_ds, e_var, e_read, e_clobbered, e_result, e_now>>
    /\ Era5Frame

\* self.cds_client.retrieve(..., temp_file): the download is written to
\* temp_file, replacing what a file of that name held, also under the
\* datasets that are open on that file (those of the same temp_file whose
\* file still holds one of its downloads); a failed request raises
Era5Retrieve(t) ==
    /\ e_pc[t] = "retrieve"
    /\ \E mode \in FailureModes \cup {"ok"} :
          IF mode = "ok"
          THEN /\ e_files' = (e_files \ FilesNamed(e_temp_file[t]))
                                \cup {[name |-> e_temp_file[t], by |-> t]}
               /\ e_clobbered' = [e_clobbered EXCEPT
                                     ![t] = @ \cup (Owners(e_temp_file[t]) \ {t})]
               /\ e_ds' = [u \in Threads |->
                              IF /\ e_temp_file[u] = e_temp_file[t]
                                 /\ e_ds[u] \cap Owners(e_temp_file[t]) # {}
                              THEN e_ds[u] \cup {t} ELSE e_ds[u]]
               /\ e_pc' = [e_pc EXCEPT ![t] = "open"]
               /\ e_result' = e_result
          ELSE /\ e_pc' = [e_pc EXCEPT ![t] = "finally"]
               /\ e_result' = [e_result EXCEPT ![t] = "raise"]
               /\ UNCHANGED <<e_files, e_clobbered, e_ds>>
    /\ UNCHANGED <<e_temp_file, e_var, e_read, e_now>>
    /\ Era5Frame

\* ds = xr.open_dataset(temp_file, engine='netcdf4'): the dataset is opened
\* on the file that has the name now, nothing of it is read yet;
\* FileNotFoundError when the file is gone
Era5OpenDataset(t) ==
    /\ e_pc[t] = "open"
    /\ IF Exists(e_temp_file[t])
       THEN /\ e_ds' = [e_ds EXCEPT ![t] = Owners(e_temp_file[t])]
            /\ e_pc' = [e_pc EXCEPT ![t] = "read"]
            /\ e_result' = e_result
       ELSE /\ e_ds' = e_ds
            /\ e_pc' = [e_pc EXCEPT ![t] = "finally"]
            /\ e_result' = [e_result EXCEPT ![t] = "raise"]
    /\ UNCHANGED <<e_temp_file, e_files, e_var, e_read, e_clobbered, e_now>>
    /\ Era5Frame

\* a read through the dataset that raises
ReadError == 0 - 1

\* the variables of the request, in the order they are read
Era5Variables == <<"stl1", "swvl1", "e">>

\* what a read through the open dataset can give: while the file still
\* holds the download it was opened on, that download; once another call
\* rewrote or removed the file, what the netCDF library and the file system
\* make of it: a download the file has held since the dataset was opened
\* (the one it was opened on, or one written over it, which a removal of
\* the name leaves readable through the open file), the one the name holds
\* now, or an error (ReadError)
Era5ReadOutcomes(t) ==
    IF Owners(e_temp_file[t]) = e_ds[t] THEN e_ds[t]
    ELSE e_ds[t] \cup Owners(e_temp_file[t]) \cup {ReadError}

\* one turn of the loop over the variables of the request (combined.py
\* 86-95, open_soil_grid.py 69-76): `var in ds` (lines 87, 75) asks the
\* opened dataset whether it holds the variable; when it does, ds[var].values
\* reads it (open_soil_grid.py reads it for its mean, min and max), when it
\* does not, the variable is passed over without a read; after the last
\* variable the data is complete
Era5ReadVariable(t) ==
    /\ e_pc[t] = "read"
    /\ e_var[t] < Len(Era5Variables)
    /\ \E in_ds \in BOOLEAN :
          \E got \in IF in_ds THEN Era5ReadOutcomes(t) ELSE {t} :
              IF in_ds /\ got = ReadError
              THEN /\ e_result' = [e_result EXCEPT ![t] = "raise"]
                   /\ e_pc' = [e_pc EXCEPT ![t] = "finally"]
                   /\ UNCHANGED <<e_var, e_read>>
              ELSE /\ e_read' = [e_read EXCEPT
                                     ![t] = IF in_ds THEN @ \cup {got} ELSE @]
                   /\ e_var' = [e_var EXCEPT ![t] = @ + 1]
                   /\ IF e_var[t] + 1 = Len(Era5Variables)
                      THEN /\ e_result' = [e_result EXCEPT ![t] = "data"]
                           /\ e_pc' = [e_pc EXCEPT ![t] = "finally"]
                      ELSE UNCHANGED <<e_result, e_pc>>
    /\ UNCHANGED <<e_temp_file, e_files, e_ds, e_clobbered, e_now>>
    /\ Era5Frame

\* finally: get_era5_data closes the dataset it opened (combined.py 104-105;
\* fetch_era5_data keeps it open until the call ends), then
\* os.path.exists(temp_file) decides whether os.remove is called
Era5Finally(t) ==
    /\ e_pc[t] = "finally"
    /\ e_ds' = IF prog = "combined" THEN [e_ds EXCEPT ![t] = {}] ELSE e_ds
    /\ e_pc' = [e_pc EXCEPT
                   ![t] = IF Exists(e_temp_file[t]) THEN "remove" ELSE "done"]
    /\ UNCHANGED <<e_temp_file, e_files, e_var, e_read, e_clobbered, e_result,
                   e_now>>
    /\ Era5Frame

\* os.remove(temp_file), whoever wrote the file; when another call removed
\* it after the test, FileNotFoundError leaves the finally block in place of
\* the data or the exception the call was about to deliver
Era5Remove(t) ==
    /\ e_pc[t] = "remove"
    /\ IF Exists(e_temp_file[t])
       THEN /\ e_files' = e_files \ FilesNamed(e_temp_file[t])
            /\ e_clobbered' = [e_clobbered EXCEPT
                                  ![t] = @ \cup (Owners(e_temp_file[t]) \ {t})]
            /\ e_result' = e_result
       ELSE /\ e_result' = [e_result EXCEPT ![t] = "raise"]
            /\ UNCHANGED <<e_files, e_clobbered>>
    /\ e_pc' = [e_pc EXCEPT ![t] = "done"]
    /\ UNCHANGED <<e_temp_file, e_ds, e_var, e_read, e_now>>
    /\ Era5Frame

NextEra5 ==
    \/ ClockTick
    \/ \E t \in Threads : Era5TempFile(t)
    \/ \E t \in Threads : Era5Retrieve(t)
    \/ \E t \in Threads : Era5OpenDataset(t)
    \/ \E t \in Threads : Era5ReadVariable(t)
    \/ \E t \in Threads : Era5Finally(t)
    \/ \E t \in Threads : Era5Remove(t)

SpecEra5 == InitEra5 /\ [][NextEra5]_vars

---------------------------------------------------------------------------
(* Properties *)

\* get_soil_data has returned its record
Finished == pc = "done" /\ soil_data # NoResult

\* the layers _process_soil_data hands to _analyze_soil_properties
SoilLayers ==
    IF soil_properties.kind = "dict" /\ soil_properties.properties.t = "dict"
    THEN soil_properties.properties.layers ELSE <<>>

\* the profile was built (no exception escaped _process_soil_data)
Built == Finished /\ soil_data.status = "ok"

\* a completed fetch task that hit a failure mode
TaskFailed(task) == task.st = "done" /\ task.mode # "ok"

AllFailed(log) == \A i \in 1..Len(log) : log[i].kind # "text"

LoopOver == mpc \in {"report", "done"}

\* C1 (as claimed): every source fetch, of the three programs, ends a failed
\* request by returning an empty payload and raises nothing to its caller.
\* The ERA5 fetches and SoilClimateAnalyzer.fetch_soilgrid_data raise.
C1_FetchNeverPropagates ==
    /\ lastFetch.mode \in FailureModes =>
           ~lastFetch.raised /\ lastFetch.returned = EmptyDict
    /\ TaskFailed(soilTask) => ~soilTask.raised /\ soilTask.ret = "None"
    /\ TaskFailed(climTask) => ~climTask.raised /\ climTask.ret = "None"

\* C2 (as claimed): when every attempt of the retry loop failed, the loop
\* made exactly max_retries attempts and returned a failure record with an
\* empty payload.  analyze_data returns None after an empty last answer.
C2_AlwaysFailingSource ==
    (LoopOver /\ attemptLog # <<>> /\ AllFailed(attemptLog)) =>
        /\ Len(attemptLog) = max_retries
        /\ aresult.kind = "dict"
        /\ aresult.success = FALSE
        /\ aresult.analysis = ""

\* C3: when the first max_retries - 1 attempts fail the loop is still
\* running, and when the last attempt then succeeds the loop returns success
\* with that attempt's text and never makes another attempt.
C3_SucceedsOnLastAttempt ==
    /\ (attemptLog # <<>> /\ AllFailed(attemptLog)
            /\ Len(attemptLog) < max_retries) =>
           mpc = "analyze" /\ aresult = NoAnalysis
    /\ (Len(attemptLog) >= max_retries
            /\ AllFailed(SubSeq(attemptLog, 1, max_retries - 1))
            /\ attemptLog[max_retries].kind = "text") =>
           /\ Len(attemptLog) = max_retries
           /\ LoopOver
           /\ aresult.kind = "dict"
           /\ aresult.success = TRUE
           /\ aresult.analysis = attemptLog[max_retries].text

C3_Witness ==
    /\ mpc = "done"
    /\ Len(attemptLog) = max_retries
    /\ attemptLog[1].kind = "exception"
    /\ attemptLog[2].kind = "empty"
    /\ attemptLog[3] = [kind |-> "text", text |-> "analysis B"]
    /\ aresult.success

OutOfRange ==
    \/ latitude.t = "nan"
    \/ latitude.t = "num" /\ (latitude.v < -90 \/ latitude.v > 90)
    \/ longitude.t = "nan"
    \/ longitude.t = "num" /\ (longitude.v < -180 \/ longitude.v > 180)

\* C4 (as claimed): a coordinate outside [-90,90] x [-180,180] ends the
\* request with an error result (main's error line, or a record with status
\* error) and not a single outbound request is issued for it.
\* get_soil_data validates nothing: called with (200, 0) it issues the three
\* requests and returns what they give.
C4_InvalidCoordinateNoNetwork ==
    OutOfRange =>
        /\ calls = <<>>
        /\ pc = "done" => (printed = "Error" \/ soil_data.status = "error")

\* C5 (as claimed): when all three fetches returned an empty payload the
\* profile has all three availability flags false, soil type Unknown with
\* the default (zero) composition, and a timestamp.  The builder reports
\* soil data as available and classifies the defaulted composition.
C5_AllSourcesFailed ==
    (Finished /\ ~Truthy(weather_data) /\ ~Truthy(nasa_data)
              /\ ~Truthy(soil_properties)) =>
        /\ ~soil_data.weather_data_available
        /\ ~soil_data.nasa_data_available
        /\ ~soil_data.soil_data_available
        /\ soil_data.soil_type = "Unknown"
        /\ soil_data.clay_content_percent = 0
        /\ soil_data.sand_content_percent = 0
        /\ soil_data.silt_content_percent = 0
        /\ soil_data.timestamp \in Nat

\* the value the soil payload holds for a property at its first depth, in
\* either shape: layer[property]['value'], or the layer named after the
\* property with depths[0]['values']['mean']
PayloadValue(property_name) ==
    IF Len(SoilLayers) = 0 THEN JMissing
    ELSE IF "name" \in DOMAIN SoilLayers[1]
    THEN IF \E i \in 1..Len(SoilLayers) : SoilLayers[i].name = property_name
         THEN LET i == CHOOSE i \in 1..Len(SoilLayers) :
                           SoilLayers[i].name = property_name
              IN  SoilLayers[i].depths[1].values.mean
         ELSE JMissing
    ELSE IF property_name \in DOMAIN SoilLayers[1]
    THEN SoilLayers[1][property_name].value
    ELSE JMissing

\* C6 (as claimed): when only the soil source answered, the environmental
\* fields are absent, the stored composition and label are those of the
\* payload's clay and sand, and the availability flags show neither no
\* source nor all sources.  For a payload in the service's own shape the
\* builder reads nothing (see C25) and stores 0 / 0 / 100, Silty.
C6_OnlySoilSucceeds ==
    (Built /\ ~Truthy(weather_data) /\ ~Truthy(nasa_data)
           /\ PayloadValue("clay").t = "num" /\ PayloadValue("sand").t = "num"
           /\ PayloadValue("clay").v >= 0 /\ PayloadValue("sand").v >= 0
           /\ PayloadValue("clay").v + PayloadValue("sand").v <= 100000
           /\ PayloadValue("soc").t # "big" /\ PayloadValue("phh2o").t # "big") =>
        /\ soil_data.temperature_celsius = JNull
        /\ soil_data.humidity_percent = JNull
        /\ soil_data.precipitation_mm = JNull
        /\ soil_data.clay_content_percent = Round(PayloadValue("clay").v, 1000, 2)
        /\ soil_data.sand_content_percent = Round(PayloadValue("sand").v, 1000, 2)
        /\ soil_data.silt_content_percent =
               Round(100000 - PayloadValue("clay").v - PayloadValue("sand").v, 1000, 2)
        /\ (PayloadValue("sand").v >= 85000 => soil_data.soil_type = "Sandy")
        /\ soil_data.soil_type # "Unknown"
        /\ ~soil_data.weather_data_available
        /\ ~soil_data.nasa_data_available
        /\ soil_data.soil_data_available

\* an exception escapes _process_soil_data for the fetched payloads
Faulted ==
    ProcessSoilData(weather_data, nasa_data, soil_properties).status = "raise"

\* C7 (as claimed): a fault while building the profile yields an error
\* result that carries the fault's description.
C7_FaultDescriptionCarried ==
    (Finished /\ Faulted) =>
        /\ soil_data.status = "error"
        /\ soil_data.message =
               ProcessSoilData(weather_data, nasa_data, soil_properties).message

\* C7 (amended): get_soil_data never raises; a fault while building the
\* profile yields the fixed fallback record: status error, all availability
\* flags false, soil type Unknown, a timestamp, and the generic message (the
\* fault's description is only printed).
C7_FaultGivesFixedFallback ==
    /\ Finished => soil_data.status \in {"ok", "error"}
    /\ (Finished /\ Faulted) =>
        /\ soil_data.status = "error"
        /\ soil_data.message =
               "Unable to retrieve soil data. Please check your coordinates and try again."
        /\ ~soil_data.weather_data_available
        /\ ~soil_data.nasa_data_available
        /\ ~soil_data.soil_data_available
        /\ soil_data.soil_type = "Unknown"
        /\ soil_data.timestamp \in Nat

C7_Witness ==
    /\ Finished
    /\ Faulted
    /\ nasa_data.kind = "dict"
    /\ soil_data.status = "error"

\* the ranges _analyze_soil_properties validates against: <<lo, hi>> in the
\* unit of the validated value (thousandths; millionths for soc * 0.058)
RangeOf(property_name) ==
    CASE property_name = "phh2o" -> <<0, 14000>>
      [] property_name = "soc"   -> <<0, 100000000>>
      [] OTHER                   -> <<0, 100000>>

\* the value handed to the validation of a property
Validated(property_name) ==
    IF property_name = "soc"
    THEN SocToOrganic(GetLayerProperty(SoilLayers, "soc"))
    ELSE GetLayerProperty(SoilLayers, property_name)

NearestInRange(lo, hi, v) == IF v < lo THEN lo ELSE IF v > hi THEN hi ELSE v

SoilFields == {"clay", "sand", "soc", "phh2o"}

\* C8 (as claimed): validation reports wasValid = false with a clamped
\* value, so the result for an out-of-range value differs from the result
\* for the in-range bound it is clamped to.  The code returns the value only.
C8_InvalidValueIsFlagged ==
    Built =>
        \A p \in SoilFields :
            LET lo == RangeOf(p)[1]
                hi == RangeOf(p)[2]
                x  == Validated(p)
            IN  (IsNum(x) /\ (x.v < lo \/ x.v > hi)) =>
                    Clamp(lo, hi, x) # Clamp(lo, hi, JNum(NearestInRange(lo, hi, x.v)))

\* C8 (amended): for every numeric v, validation returns v itself iff
\* lo <= v <= hi and the nearest bound otherwise, and returns nothing else
\* (no validity flag).
C8_ClampToNearestBound ==
    Built =>
        /\ \A p \in SoilFields :
            LET lo == RangeOf(p)[1]
                hi == RangeOf(p)[2]
                x  == Validated(p)
                r  == Clamp(lo, hi, x)
            IN  IsNum(x) =>
                    /\ r = JNum(NearestInRange(lo, hi, x.v))
                    /\ (r.v = x.v <=> (lo <= x.v /\ x.v <= hi))

C8_Witness ==
    /\ Built
    /\ Validated("soc") = JNum(116000000)
    /\ soil_data.organic_matter = 10000
    /\ Validated("phh2o") = JNum(15000)
    /\ soil_data.ph_level = 1400

\* C9 (as claimed): an absent value and a NaN value both validate to the
\* lower bound of the range; for organic carbon the stored organic matter is
\* then 0.  min(hi, NaN) is hi, so NaN validates to the upper bound.
C9_AbsentAndNaNAlike ==
    Built =>
        /\ \A p \in SoilFields :
               PayloadValue(p).t \in {"missing", "null", "nan"} =>
                   Clamp(RangeOf(p)[1], RangeOf(p)[2], Validated(p)) = JNum(RangeOf(p)[1])
        /\ PayloadValue("soc").t \in {"missing", "null", "nan"} =>
               soil_data.organic_matter = 0

StoredSum ==
    soil_data.clay_content_percent + soil_data.sand_content_percent
        + soil_data.silt_content_percent

\* the extracted composition is not all zero
ExtractedNonZero ==
    \/ GetLayerProperty(SoilLayers, "clay") # JNum(0)
    \/ GetLayerProperty(SoilLayers, "sand") # JNum(0)
    \/ GetLayerProperty(SoilLayers, "silt") # JNum(0)

\* reading a property of the first layer raises an error that
\* _get_layer_property does not catch
ExtractionRaises ==
    \E p \in {"clay", "sand", "soc", "phh2o"} :
        GetLayerProperty(SoilLayers, p).t = "raise"

\* C10 (as claimed): the stored clay + sand + silt is exactly 100.
C10_StoredSumExactly100 ==
    (Built /\ ExtractedNonZero) => StoredSum = 10000

\* C10 (amended): the components are normalised to sum to 100 and then each
\* rounded to two decimals, so the stored sum is within 0.01 of 100; when
\* reading one of the four soil properties raises, the analysis is given up
\* and the default composition 0 / 0 / 0 is stored with soil type Unknown.
C10_StoredSumWithinRounding ==
    (Built /\ ExtractedNonZero) =>
        IF ExtractionRaises
        THEN /\ StoredSum = 0
             /\ soil_data.soil_type = "Unknown"
        ELSE /\ StoredSum >= 9999
             /\ StoredSum <= 10001

C10_Witness ==
    /\ Built
    /\ GetLayerProperty(SoilLayers, "clay") = JNum(16666)
    /\ GetLayerProperty(SoilLayers, "sand") = JNum(116662)
    /\ ~ExtractionRaises
    /\ StoredSum = 10000

---------------------------------------------------------------------------
(* the classifier *)

SixLabels == {"Sandy", "Clay", "Silty", "Sandy Loam", "Clay Loam", "Loam"}

\* every argument of the call is a percentage and the three sum to 100
UnitTriple ==
    /\ c_clay.t = "num" /\ c_sand.t = "num" /\ c_silt.t = "num"
    /\ \A x \in {c_clay, c_sand, c_silt} : 0 <= x.n /\ x.n <= 100 * x.d
    /\ c_clay.n * c_sand.d * c_silt.d + c_sand.n * c_clay.d * c_silt.d
           + c_silt.n * c_clay.d * c_sand.d
         = 100 * c_clay.d * c_sand.d * c_silt.d

\* C13: for every triple of percentages summing to 100 the classifier
\* returns one of the six named classes, never Unknown and never nothing.
C13_ClassifierTotal ==
    (c_pc = "returned" /\ UnitTriple) => c_label \in SixLabels

C13_Witness ==
    /\ c_pc = "returned"
    /\ UnitTriple
    /\ c_clay = Rat(20 * ClassifyGridDen, ClassifyGridDen)
    /\ c_sand = Rat(40 * ClassifyGridDen, ClassifyGridDen)
    /\ c_label = "Loam"

\* the comparisons of the rule table (false of NaN)
AtLeast(x, k) == x.t = "num" /\ x.n >= k * x.d
AtMost(x, k)  == x.t = "num" /\ x.n <= k * x.d

\* C14: for every numeric triple the label is that of the first rule that
\* matches, in the order sand >= 85 Sandy, clay >= 40 Clay, silt >= 80 Silty,
\* sand >= 70 Sandy Loam, clay >= 27 and silt >= 28 and sand <= 45 Clay
\* Loam, otherwise Loam.
C14_FirstMatchingRule ==
    (c_pc = "returned" /\ c_clay.t \in {"num", "nan"}
        /\ c_sand.t \in {"num", "nan"} /\ c_silt.t \in {"num", "nan"}) =>
        LET r1 == AtLeast(c_sand, 85)
            r2 == AtLeast(c_clay, 40)
            r3 == AtLeast(c_silt, 80)
            r4 == AtLeast(c_sand, 70)
            r5 == AtLeast(c_clay, 27) /\ AtLeast(c_silt, 28) /\ AtMost(c_sand, 45)
        IN  /\ r1 => c_label = "Sandy"
            /\ (~r1 /\ r2) => c_label = "Clay"
            /\ (~r1 /\ ~r2 /\ r3) => c_label = "Silty"
            /\ (~r1 /\ ~r2 /\ ~r3 /\ r4) => c_label = "Sandy Loam"
            /\ (~r1 /\ ~r2 /\ ~r3 /\ ~r4 /\ r5) => c_label = "Clay Loam"
            /\ (~r1 /\ ~r2 /\ ~r3 /\ ~r4 /\ ~r5) => c_label = "Loam"

\* both the sand rule and the clay rule match: the earlier one decides
C14_Witness ==
    /\ c_pc = "returned"
    /\ c_sand = Rat(200, 2)
    /\ c_clay = Rat(80, 2)
    /\ c_silt = Rat(160, 2)
    /\ c_label = "Sandy"

---------------------------------------------------------------------------
(* composition *)

\* what extraction gives for a property of the first layer
Extracted(property_name) == GetLayerProperty(SoilLayers, property_name)

\* C11 (as claimed): when the extracted clay, sand and silt are all zero the
\* stored composition is the zero triple and no component is synthesised.
\* The analyzer derives silt as 100 - clay - sand and stores 0 / 0 / 100.
C11_ZeroTripleKept ==
    (Built /\ Extracted("clay") = JNum(0) /\ Extracted("sand") = JNum(0)
           /\ Extracted("silt") = JNum(0)) =>
        /\ soil_data.clay_content_percent = 0
        /\ soil_data.sand_content_percent = 0
        /\ soil_data.silt_content_percent = 0

\* the extracted value is a percentage
IsPercentage(x) == x.t = "num" /\ 0 <= x.v /\ x.v <= 100000

\* C12 (as claimed): for clay, sand and silt inputs with a non-zero sum each
\* stored component is its input times 100 / sum (30, 30, 30 gives 33.33
\* each).  The payload's silt is never read: line 200 replaces it with
\* 100 - clay - sand, and 30, 30, 30 is stored as 30 / 30 / 40.
C12_RescaledByInputSum ==
    (Built /\ PayloadValue("silt").t = "num"
           /\ \A q \in {"clay", "sand", "silt"} : IsPercentage(Extracted(q))
           /\ Extracted("clay").v + Extracted("sand").v + Extracted("silt").v > 0) =>
        LET sum == Extracted("clay").v + Extracted("sand").v + Extracted("silt").v
        IN  /\ soil_data.clay_content_percent = Round(Extracted("clay").v * 100, sum, 2)
            /\ soil_data.sand_content_percent = Round(Extracted("sand").v * 100, sum, 2)
            /\ soil_data.silt_content_percent = Round(Extracted("silt").v * 100, sum, 2)

---------------------------------------------------------------------------
(* data quality, environmental fields, pH and organic matter *)

\* no fetch of the request returned a payload
NoSourceSucceeded ==
    ~Truthy(weather_data) /\ ~Truthy(nasa_data) /\ ~Truthy(soil_properties)

\* the data-quality record of the result names no available source (the
\* record of the Insufficient error result)
ReportsInsufficient ==
    /\ ~soil_data.weather_data_available
    /\ ~soil_data.nasa_data_available
    /\ ~soil_data.soil_data_available

\* C15 (as claimed): the quality of a result is a function of which sources
\* succeeded, and it is Insufficient if and only if no source succeeded.
\* The result for three failed sources reports soil data as available, and
\* the Insufficient record is returned for answers of the wrong shape.
C15_InsufficientIffNoSource ==
    Finished => (ReportsInsufficient <=> NoSourceSucceeded)

\* the atmospheric mean of a parameter for the fetched NASA POWER payload
NasaMean(key) ==
    IF nasa_data.kind = "dict" /\ nasa_data.properties.t = "dict"
    THEN SafeGetNasaValue(nasa_data.properties.parameter, key)
    ELSE Rat(0, 1)

\* C18 (as claimed): temperature and humidity are the weather source's
\* values whenever it supplied them, and the atmospheric mean otherwise.
\* The builder never reads the weather payload's values.
C18_WeatherPreferred ==
    Built =>
        IF weather_data.kind = "dict"
        THEN /\ soil_data.temperature_celsius = JNum(weather_data.main.temp.v * 100)
             /\ soil_data.humidity_percent = JNum(weather_data.main.humidity.v * 100)
        ELSE /\ soil_data.temperature_celsius = RoundOrNone(NasaMean("T2M"))
             /\ soil_data.humidity_percent = RoundOrNone(NasaMean("RH2M"))

\* C19 (as claimed): the neutral default 7.0 replaces only a raw pH of
\* exactly zero; an out-of-range reading is stored as the nearest bound.
\* A negative reading is clamped to 0 and then replaced by 7.0.
C19_DefaultOnlyWhenAbsent ==
    (Built /\ soil_data.soil_type # "Unknown" /\ IsNum(Extracted("phh2o"))) =>
        IF Extracted("phh2o").v = 0
        THEN soil_data.ph_level = 700
        ELSE soil_data.ph_level =
                 Round(NearestInRange(0, 14000, Extracted("phh2o").v), 1000, 2)

\* C20 (as claimed): the stored organic matter is the organic carbon times
\* 0.058 clamped into [0,30].  Line 210 clamps into [0,100]: organic carbon
\* 600 is stored as organic matter 34.8.
C20_OrganicMatterAtMost30 ==
    Built =>
        /\ soil_data.organic_matter <= 3000
        /\ (IsNum(Extracted("soc")) /\ ~ExtractionRaises) =>
               soil_data.organic_matter =
                   Round(NearestInRange(0, 30000000, Extracted("soc").v * 58), 1000000, 2)

---------------------------------------------------------------------------
(* backoff of the retry loops *)

\* the backoff sleeps made so far, in order
BackoffSleeps == SelectSeq(sleeps, LAMBDA e : e.why = "backoff")

\* failed attempts so far
FailedAttempts == Len(SelectSeq(attemptLog, LAMBDA a : a.kind # "text"))

\* failed attempts after which another attempt remained
FailedWithRetryLeft ==
    IF FailedAttempts < max_retries THEN FailedAttempts ELSE max_retries - 1

\* C17 (as claimed): after the n-th failed attempt, when attempts remain,
\* the loop sleeps retry_delay * n, and it does not sleep after the last
\* failed attempt.  analyze_combined_data sleeps retry_delay * 2^n and
\* analyze_data does not back off.
C17_LinearBackoff ==
    prog \in {"combined", "opengrid"} =>
        /\ Len(BackoffSleeps) = FailedWithRetryLeft
        /\ \A n \in 1..Len(BackoffSleeps) : BackoffSleeps[n].delay = retry_delay * n

\* C17 (amended): analyze_combined_data sleeps retry_delay * 2^n after its
\* n-th failed attempt when attempts remain and not after the last one (and
\* in the first call on an analyzer object these are its only sleeps);
\* analyze_data never backs off, it only waits out the rest of the minimum
\* request interval before its next request.
C17_ExponentialBackoff ==
    /\ prog = "combined" =>
           /\ Len(BackoffSleeps) = FailedWithRetryLeft
           /\ \A n \in 1..Len(BackoffSleeps) :
                  BackoffSleeps[n].delay = retry_delay * (2 ^ n)
           /\ invocation = 1 => Len(sleeps) = Len(BackoffSleeps)
    /\ prog = "opengrid" =>
           /\ BackoffSleeps = <<>>
           /\ \A i \in 1..Len(sleeps) :
                  /\ sleeps[i].delay > 0
                  /\ sleeps[i].delay <= min_request_interval

C17_Witness ==
    /\ prog = "combined"
    /\ mpc = "done"
    /\ FailedAttempts = max_retries
    /\ sleeps = <<[why |-> "backoff", delay |-> 10], [why |-> "backoff", delay |-> 20]>>

---------------------------------------------------------------------------
(* determinism of the builder *)

\* the builder is called a second time on the payloads it built a record
\* from
SecondBuild == pc = "again" /\ soil_data.status = "ok" /\ pc' = "rebuilt"

\* C16 (as claimed): a second build from the same three fetch results
\* returns a record identical to the first, whenever it is made.  Line 148
\* stamps the record with the time of the call.
C16_RebuildIdentical ==
    [][SecondBuild => soil_data' = soil_data]_vars

---------------------------------------------------------------------------
(* C21 *)

\* a fetch task of the executor that was submitted and has not completed
InFlight(task) == task.st = "running"

\* the analysis step of the pipeline programs has started
AnalysisStarted == mpc \in {"analyze", "report"} \/ attemptLog # <<>>

\* the builder step of get_soil_data has started or is about to
BuildStarted == pc \in {"process", "again", "rebuilt"} \/ soil_data # NoResult

\* C21: the build / analysis step starts only after every source fetch of
\* the request has completed, successfully or not: while the analysis runs
\* no executor task is in flight and both have completed, and the profile
\* builder runs only after the three fetchers have returned, in order.
C21_BuildAfterAllFetches ==
    /\ AnalysisStarted =>
           /\ ~InFlight(soilTask) /\ ~InFlight(climTask)
           /\ soilTask.st = "done" /\ climTask.st = "done"
    /\ BuildStarted => calls = <<"weather", "nasa", "soil">>

\* the analysis started after a fetch pair of which both had completed
C21_Witness ==
    /\ mpc = "analyze"
    /\ attemptLog # <<>>
    /\ soilTask.st = "done" /\ soilTask.mode = "ok"
    /\ climTask.st = "done" /\ climTask.mode = "ok"

---------------------------------------------------------------------------
(* C22 *)

\* main of a pipeline program has ended
MainOver == mpc = "done"

\* main ended without an analysis having been requested
RequestFailed == MainOver /\ attemptLog = <<>> /\ aresult = NoAnalysis

\* C22 (as claimed): a failed fetch neither keeps the other fetches from
\* running to completion nor fails the request: once main has ended after a
\* failed fetch, both fetch tasks have completed and the analysis was still
\* made.  combined.py exits on a None result, and a raising fetch ends main
\* in its exception handler.
C22_FailedFetchKeepsRequest ==
    (MainOver /\ (TaskFailed(soilTask) \/ TaskFailed(climTask))) =>
        /\ TaskDone(soilTask) /\ TaskDone(climTask)
        /\ ~RequestFailed

---------------------------------------------------------------------------
(* C23 *)

\* the daily series the call looks at: parameters[key], empty when the
\* parameter is missing
DailySeries ==
    IF g_parameters.t = "dict" /\ g_key \in DOMAIN g_parameters.series
    THEN g_parameters.series[g_key] ELSE <<>>

\* positions of the entries that are not null
NonNull == {i \in 1..Len(DailySeries) : DailySeries[i].t # "null"}

RECURSIVE Total(_)
Total(I) ==
    IF I = {} THEN 0
    ELSE LET i == CHOOSE j \in I : TRUE IN DailySeries[i].v + Total(I \ {i})

\* C23: the aggregate is the arithmetic mean of the non-null entries of the
\* parameter's daily series (NaN when one of them is NaN, as float
\* arithmetic has it); it is 0.0 when the parameter is missing, the series
\* is empty, every entry is null, or an entry is not convertible to a
\* number; and the call always returns a float, it never raises.
C23_MeanOfNonNullEntries ==
    g_pc = "returned" =>
        /\ g_value.t \in {"num", "nan"}
        /\ IF NonNull = {} \/ \E i \in NonNull : DailySeries[i].t = "str"
           THEN g_value = Rat(0, 1)
           ELSE IF \E i \in NonNull : DailySeries[i].t = "nan"
           THEN g_value.t = "nan"
           ELSE /\ g_value.t = "num"
                /\ g_value.n * Cardinality(NonNull) = Total(NonNull) * g_value.d

\* a series of a number and a null entry: the mean is the number
C23_Witness ==
    /\ g_pc = "returned"
    /\ g_key = "T2M"
    /\ DailySeries = <<JNum(20), JNull>>
    /\ g_value = Rat(20, 1)

---------------------------------------------------------------------------
(* C24 *)

\* C24 (as claimed): in every profile the builder returns, each
\* availability flag is true exactly when that source's fetch returned a
\* non-empty payload; the soil flag is false when the soil fetch failed.
\* The builder tests the analysed soil properties, which are never empty.
C24_FlagsMatchFetches ==
    Built =>
        /\ soil_data.weather_data_available <=> weather_data # EmptyDict
        /\ soil_data.nasa_data_available <=> nasa_data # EmptyDict
        /\ soil_data.soil_data_available <=> soil_properties # EmptyDict

---------------------------------------------------------------------------
(* C25 *)

\* the fetched soil payload has the shape the SoilGrids service answers
\* with: a list of layers, each with a name and depth-indexed value records
GridShaped == Len(SoilLayers) > 0 /\ "name" \in DOMAIN SoilLayers[1]

\* C25 (as claimed): for a soil payload in the service's shape the builder
\* extracts, for clay, sand, pH and organic carbon, the property's value at
\* the first depth.  The builder reads layers[0][property]['value'], which
\* such a payload does not have, and extracts 0.0.
C25_FirstDepthExtracted ==
    (Built /\ GridShaped) =>
        \A property_name \in {"clay", "sand", "phh2o", "soc"} :
            PayloadValue(property_name) # JMissing =>
                Extracted(property_name) = PayloadValue(property_name)

---------------------------------------------------------------------------
(* C26 *)

\* a call of the analysis is about to make its first model request
AtFirstRequest == mpc = "analyze" /\ attemptLog = <<>>

\* the step in which a call of the analysis makes its first model request;
\* the request starts at the new last_request_time
FirstRequest == AtFirstRequest /\ attemptLog' # <<>>

\* the retry loop of a call of the analysis has just ended
LoopEnds == mpc = "analyze" /\ mpc' = "report"

Later(a, b) == IF a > b THEN a ELSE b

\* C26 (as claimed): no state persists across requests: every analysis call
\* finds the analyzer as construction left it, and its first model request
\* starts at once, as in a first call.  self.last_request_time survives the
\* call and delays the next call's first request.
C26_NoStateAcrossInvocations ==
    [][/\ AtFirstRequest => last_request_time = NoTime
       /\ FirstRequest => last_request_time' = now]_vars

\* C26 (amended): the analyzer keeps the start time of its latest model
\* request across calls, and nothing else.  The first request of a first
\* call starts at once; the first request of a later call starts at once or
\* min_request_interval after the latest request of the earlier call,
\* whichever is later.  The number of requests of a call is at most
\* max_retries and its result is success exactly when its last request
\* returned text, with that text, whatever calls were made before.
C26_OnlyRequestTimePersists ==
    [][/\ (AtFirstRequest /\ invocation = 1) => last_request_time = NoTime
       /\ (AtFirstRequest /\ invocation > 1) => last_request_time \in 0..now
       /\ AtFirstRequest => retries = 0 /\ sleeps = <<>> /\ aresult = NoAnalysis
       /\ FirstRequest =>
              last_request_time' =
                  IF last_request_time = NoTime THEN now
                  ELSE Later(now, last_request_time + min_request_interval)
       /\ LoopEnds =>
              /\ Len(attemptLog') <= max_retries
              /\ aresult'.success <=>
                     attemptLog'[Len(attemptLog')].kind = "text"
              /\ aresult'.success =>
                     aresult'.analysis = attemptLog'[Len(attemptLog')].text]_vars

\* a second call whose first request had to wait for the rate limiter
C26_Witness ==
    /\ invocation = 2
    /\ Len(attemptLog) = 1
    /\ sleeps # <<>>
    /\ sleeps[1].why = "rate_limit"

---------------------------------------------------------------------------
(* C27 *)

\* some attempt of the call returned non-empty generated text
SomeText == \E i \in 1..Len(attemptLog) : attemptLog[i].kind = "text"

\* C27 (as claimed): analyze_data returns, whatever the outcomes of its
\* attempts, a result record with a success flag: success with the text
\* when some attempt returned non-empty text, and otherwise a failure with
\* an error.  After an empty answer to the last attempt the function falls
\* off its end and returns None.
C27_AlwaysResultRecord ==
    (prog = "opengrid" /\ LoopOver /\ attemptLog # <<>>) =>
        /\ aresult.kind = "dict"
        /\ aresult.success <=> SomeText
        /\ aresult.success => aresult.analysis = attemptLog[Len(attemptLog)].text
        /\ ~aresult.success => aresult.error # ""

---------------------------------------------------------------------------
(* C28 *)

\* C28 (as claimed): two ERA5 fetch calls running concurrently never share
\* a temporary download file: neither reads, overwrites or removes the file
\* the other call downloaded.  The file name is the wall-clock second of the
\* call's start, so two calls starting within one second use one file.
C28_NoSharedTempFile ==
    \A t \in Threads, u \in Threads :
        t # u => u \notin e_read[t] /\ u \notin e_clobbered[t]

---------------------------------------------------------------------------
(* C29 *)

\* the label of the same first-match rule table with the sand <= 45
\* condition of the Clay Loam rule left out
LabelWithoutSandBound ==
    IF AtLeast(c_sand, 85) THEN "Sandy"
    ELSE IF AtLeast(c_clay, 40) THEN "Clay"
    ELSE IF AtLeast(c_silt, 80) THEN "Silty"
    ELSE IF AtLeast(c_sand, 70) THEN "Sandy Loam"
    ELSE IF AtLeast(c_clay, 27) /\ AtLeast(c_silt, 28) THEN "Clay Loam"
    ELSE "Loam"

\* C29: for every triple of percentages summing to 100 the classifier
\* returns the label of the rule table without the sand <= 45 condition:
\* with clay >= 27 and silt >= 28 the condition never decides.
C29_SandBoundRedundant ==
    (c_pc = "returned" /\ UnitTriple) => c_label = LabelWithoutSandBound

\* the Clay Loam rule at its corner: clay 27, silt 28, sand exactly 45
C29_Witness ==
    /\ c_pc = "returned"
    /\ UnitTriple
    /\ c_clay = Rat(27 * ClassifyGridDen, ClassifyGridDen)
    /\ c_sand = Rat(45 * ClassifyGridDen, ClassifyGridDen)
    /\ c_silt = Rat(28 * ClassifyGridDen, ClassifyGridDen)
    /\ c_label = "Clay Loam"

====
